---- MODULE Spec2Model ----
(***************************************************************************)
(* Model of the todo-app backend (getvictor/todo-app): the task store, the *)
(* four request handlers, the route dispatch registered in main and the    *)
(* body-tracing middleware.  One HTTP exchange is one step: the registered *)
(* handler chain (middleware -> route function -> handler -> store, and    *)
(* for a create the outbound notification) runs to completion.             *)
(*                                                                         *)
(* Byte strings are sequences of tokens.  A token is a record with a field *)
(* k; the length of a token sequence stands for the byte count.            *)
(***************************************************************************)
EXTENDS Integers, Sequences, FiniteSets, TLC

\* Bounds of the model.
MaxId == 2          \* rows ever inserted (AUTOINCREMENT values handed out)
MaxTime == 2        \* last value the clock reaches
MaxWireId == 1      \* rows ever inserted in SpecWire
ReadChunk == 2      \* tokens one Read call returns at most
MaxCalls == 3       \* calls a handler makes on its writer in SpecWriter
MaxAccepted == 2    \* requests the listener accepts in SpecProcess
MaxQueryLen == 3    \* characters of a statement in SpecFormat
MaxArgs == 2        \* arguments bound to a statement in SpecFormat

Min(a, b) == IF a < b THEN a ELSE b

RECURSIVE SelectSeq2(_, _)
\* the elements of s whose field k is in ks, in order
SelectSeq2(s, ks) ==
    IF s = <<>> THEN <<>>
    ELSE IF Head(s).k \in ks THEN <<Head(s)>> \o SelectSeq2(Tail(s), ks)
    ELSE SelectSeq2(Tail(s), ks)

(***************************************************************************)
(* Text: the characters of URL paths, and the Go string functions the      *)
(* handlers and the route dispatch apply to them.                          *)
(***************************************************************************)
DigitChars == <<"0", "1", "2", "3", "4", "5", "6", "7", "8", "9">>

IsDigit(c) == \E i \in 1..10 : DigitChars[i] = c

DigitVal(c) == (CHOOSE i \in 1..10 : DigitChars[i] = c) - 1

\* the decimal rendering of a number below 10 (the ids of the model)
Itoa(n) == <<DigitChars[n + 1]>>

CompleteSuffix == <<"/", "c", "o", "m", "p", "l", "e", "t", "e">>

HasSuffix(s, suf) ==
    /\ Len(s) >= Len(suf)
    /\ SubSeq(s, Len(s) - Len(suf) + 1, Len(s)) = suf

TrimSuffix(s, suf) ==
    IF HasSuffix(s, suf) THEN SubSeq(s, 1, Len(s) - Len(suf)) ELSE s

RECURSIVE DigitsValue(_, _)
DigitsValue(s, acc) ==
    IF s = <<>> THEN acc ELSE DigitsValue(Tail(s), acc * 10 + DigitVal(Head(s)))

\* strconv.Atoi: an optional sign, then one or more decimal digits
Atoi(s) ==
    LET signed == s # <<>> /\ Head(s) \in {"+", "-"}
        digits == IF signed THEN Tail(s) ELSE s
    IN  IF digits = <<>> \/ \E i \in 1..Len(digits) : ~IsDigit(digits[i])
        THEN [err |-> TRUE, n |-> 0]
        ELSE [err |-> FALSE,
              n |-> IF signed /\ Head(s) = "-" THEN 0 - DigitsValue(digits, 0)
                    ELSE DigitsValue(digits, 0)]

(***************************************************************************)
(* Body streams (io.Reader).  A stream delivers data[pos+1 ..] until its   *)
(* limit; a transport fault cuts the stream short after 'at' tokens.       *)
(* fault "eof": the body ends before its declared length (the server body  *)
(* reports ErrUnexpectedEOF once and io.EOF afterwards); fault "sticky":   *)
(* the connection read fails and every later Read fails too.               *)
(***************************************************************************)
NewReader(b) == [data |-> b, pos |-> 0, fault |-> "none", at |-> 0, failed |-> FALSE]

StreamLimit(s) == IF s.fault = "none" THEN Len(s.data) ELSE Min(s.at, Len(s.data))

\* one Read call with room for n tokens
Read(s, n) ==
    IF s.failed
    THEN [bytes |-> <<>>, err |-> IF s.fault = "eof" THEN "EOF" ELSE "error", stream |-> s]
    ELSE IF s.pos >= StreamLimit(s)
    THEN IF s.fault = "none"
         THEN [bytes |-> <<>>, err |-> "EOF", stream |-> s]
         ELSE [bytes |-> <<>>, err |-> "error", stream |-> [s EXCEPT !.failed = TRUE]]
    ELSE LET upto == Min(s.pos + n, StreamLimit(s))
         IN  [bytes |-> SubSeq(s.data, s.pos + 1, upto), err |-> "nil",
              stream |-> [s EXCEPT !.pos = upto]]

RECURSIVE ReadAllFrom(_, _)
ReadAllFrom(s, acc) ==
    LET r == Read(s, ReadChunk)
    IN  IF r.err = "nil" THEN ReadAllFrom(r.stream, acc \o r.bytes)
        ELSE [bytes |-> acc \o r.bytes,
              err |-> IF r.err = "EOF" THEN "nil" ELSE r.err,
              stream |-> r.stream]

\* io.ReadAll: reads until EOF (not an error) or the first error
ReadAll(s) == ReadAllFrom(s, <<>>)

(***************************************************************************)
(* JSON.  Request bodies are token sequences; the decoder of CreateTask    *)
(* reads the first JSON value of the stream into struct{Title string}.     *)
(***************************************************************************)
LBrace == [k |-> "{"]
RBrace == [k |-> "}"]
Garbage == [k |-> "garbage"]
Str(s) == [k |-> "string", s |-> s]
Num(n) == [k |-> "number", n |-> n]
Member(key, val) == [k |-> "member", key |-> key, val |-> val]

RECURSIVE DecodeMembers(_, _, _)
\* the members of an object after its "{": up to the closing "}"
DecodeMembers(b, title, typeErr) ==
    IF b = <<>> THEN [err |-> TRUE, title |-> ""]
    ELSE IF Head(b).k = "}" THEN [err |-> typeErr, title |-> title]
    ELSE IF Head(b).k # "member" THEN [err |-> TRUE, title |-> ""]
    ELSE IF Head(b).key # "title" THEN DecodeMembers(Tail(b), title, typeErr)
    ELSE IF Head(b).val.k = "string" THEN DecodeMembers(Tail(b), Head(b).val.s, typeErr)
    ELSE DecodeMembers(Tail(b), title, TRUE)

\* the first JSON value of the bytes b, into struct{Title string}; what
\* follows the value is not looked at
DecodeValue(b) ==
    LET parsed == IF b = <<>> \/ Head(b).k # "{" THEN [err |-> TRUE, title |-> ""]
                  ELSE DecodeMembers(Tail(b), "", FALSE)
    IN  [err |-> parsed.err, title |-> IF parsed.err THEN "" ELSE parsed.title,
         read |-> b]

\* json.NewDecoder(r.Body).Decode(&req): reads the stream, parses the first value
DecodeTitle(stream) == DecodeValue(ReadAll(stream).bytes)

\* Go slices: a nil slice and an empty slice differ, and encode differently
NilSlice == [isNil |-> TRUE, elems |-> <<>>]
EmptySlice == [isNil |-> FALSE, elems |-> <<>>]
AppendSlice(s, e) == [isNil |-> FALSE, elems |-> Append(s.elems, e)]

EncodeTask(t) == [k |-> "task", id |-> t.id, title |-> t.title,
                  completed |-> t.completed, created_at |-> t.created_at]

RECURSIVE EncodeElems(_)
EncodeElems(ts) ==
    IF ts = <<>> THEN <<>>
    ELSE IF Len(ts) = 1 THEN <<EncodeTask(ts[1])>>
    ELSE <<EncodeTask(ts[1]), [k |-> ","]>> \o EncodeElems(Tail(ts))

\* json.Encoder.Encode of a []Task: one value and a newline
EncodeTasks(s) ==
    IF s.isNil THEN <<[k |-> "null"], [k |-> "\n"]>>
    ELSE <<[k |-> "["]>> \o EncodeElems(s.elems) \o <<[k |-> "]"], [k |-> "\n"]>>

EncodeTaskLine(t) == <<EncodeTask(t), [k |-> "\n"]>>

(***************************************************************************)
(* http.ResponseWriter.  A handler's output is the sequence of calls it    *)
(* makes on the writer it is given.                                        *)
(***************************************************************************)
SetHeader(name, val) == [k |-> "SetHeader", name |-> name, val |-> val]
WriteHeader(code) == [k |-> "WriteHeader", code |-> code]
Write(b) == [k |-> "Write", b |-> b]

Text(msg) == [k |-> "text", s |-> msg]

\* net/http.Error: plain-text headers, the status, the message and a newline
HttpError(msg, code) ==
    << SetHeader("Content-Type", "text/plain; charset=utf-8"),
       SetHeader("X-Content-Type-Options", "nosniff"),
       WriteHeader(code),
       Write(<<Text(msg), [k |-> "\n"]>>) >>

enableCORS ==
    << SetHeader("Access-Control-Allow-Origin", "*"),
       SetHeader("Access-Control-Allow-Methods", "GET, POST, DELETE, OPTIONS"),
       SetHeader("Access-Control-Allow-Headers", "Content-Type") >>

\* what the net/http server sends for the calls its writer received: the
\* first WriteHeader decides the status (200 when a Write or the return comes
\* first), later ones are dropped; headers set after that point are not sent
RECURSIVE Deliver(_, _)
Deliver(calls, resp) ==
    IF calls = <<>> THEN [resp EXCEPT !.status = IF resp.status = 0 THEN 200 ELSE @]
    ELSE LET c == Head(calls)
         IN  IF c.k = "SetHeader"
             THEN Deliver(Tail(calls),
                          IF resp.status = 0
                          THEN [resp EXCEPT !.headers =
                                    {h \in @ : h.name # c.name} \cup {[name |-> c.name, val |-> c.val]}]
                          ELSE resp)
             ELSE IF c.k = "WriteHeader"
             THEN Deliver(Tail(calls),
                          IF resp.status = 0 THEN [resp EXCEPT !.status = c.code] ELSE resp)
             ELSE Deliver(Tail(calls),
                          [resp EXCEPT !.status = IF @ = 0 THEN 200 ELSE @,
                                       !.body = @ \o c.b])

NoResponse == [status |-> 0, body |-> <<>>, headers |-> {}]

(***************************************************************************)
(* Metrics: the calls made on the request counter and the duration         *)
(* histogram, with their attributes.  The measured duration itself is not  *)
(* modelled.                                                               *)
(***************************************************************************)
CounterAdd(attrs) == [k |-> "counter", attrs |-> attrs]
DurationRecord(attrs) == [k |-> "duration", attrs |-> attrs]

recordRequestMetrics(method, endpoint, statusCode) ==
    LET attrs == [method |-> method, endpoint |-> endpoint, status_code |-> statusCode]
    IN  <<CounterAdd(attrs), DurationRecord(attrs)>>

(***************************************************************************)
(* The store: table tasks(id INTEGER PRIMARY KEY AUTOINCREMENT, title,     *)
(* completed DEFAULT 0, created_at DEFAULT CURRENT_TIMESTAMP).  A store    *)
(* state st is [tasks, nextId, now], now being the last reading of the     *)
(* clock.  env.dbFault makes the statement of the request fail             *)
(* (connectivity); env.rows is the order in which the SELECT returns the   *)
(* rows; env.elapsed is the time gone by when an INSERT reads the clock.   *)
(***************************************************************************)
\* a span: its name, how often End was called on it, its status
StartSpan(name) == [name |-> name, ends |-> 0, status |-> "Unset"]

SetStatus(span, status) == [span EXCEPT !.status = status]

EndSpan(span) == [span EXCEPT !.ends = @ + 1]

\* a span started, given a status and ended
SpanOf(name, status) == EndSpan(SetStatus(StartSpan(name), status))

\* deferSpanEnd with a fault seeded: End is called before the successful
\* return only
deferSpanEndOnSuccess(r) ==
    IF "err" \in DOMAIN r /\ r.err # "nil" THEN r
    ELSE [r EXCEPT !.spans = [i \in 1..Len(@) |-> EndSpan(@[i])]]

\* defer span.End(): End is called on the span when the function that
\* started it returns r, by whichever return statement
deferSpanEnd(r) == [r EXCEPT !.spans = [i \in 1..Len(@) |-> EndSpan(@[i])]]

\* the orders ORDER BY created_at DESC allows: ties come in any order
Listings(tasks) ==
    LET n == Cardinality(tasks)
    IN  { s \in [1..n -> tasks] :
            /\ \A i, j \in 1..n : i # j => s[i] # s[j]
            /\ \A i, j \in 1..n : i < j => s[i].created_at >= s[j].created_at }

RECURSIVE ScanRows(_, _)
\* the rows.Next loop of GetAllTasks: append to a slice that starts nil
ScanRows(rows, slice) ==
    IF rows = <<>> THEN slice ELSE ScanRows(Tail(rows), AppendSlice(slice, Head(rows)))

DBGetAllTasks(st, env) ==
    LET span == StartSpan("db.GetAllTasks")
    IN  deferSpanEnd(
        IF env.dbFault
        THEN [op |-> "GetAllTasks", err |-> "internal", out |-> NilSlice, executed |-> FALSE,
              fault |-> TRUE,
              tasks |-> st.tasks, nextId |-> st.nextId, spans |-> <<span>>]
        ELSE [op |-> "GetAllTasks", err |-> "nil", out |-> ScanRows(env.rows, NilSlice),
              executed |-> TRUE, fault |-> FALSE,
              tasks |-> st.tasks, nextId |-> st.nextId, spans |-> <<span>>])

NoTask == [id |-> 0, title |-> "", completed |-> FALSE, created_at |-> 0]

\* DBCreateTask with a fault seeded: the row is returned but not stored
DBCreateTaskNoRow(st, title, env) ==
    [op |-> "CreateTask", err |-> "nil",
     out |-> [id |-> st.nextId, title |-> title, completed |-> FALSE,
              created_at |-> st.now + env.elapsed],
     executed |-> TRUE, fault |-> FALSE,
     tasks |-> st.tasks, nextId |-> st.nextId + 1,
     spans |-> <<SpanOf("db.CreateTask", "Unset")>>]

\* DBCreateTask with a fault seeded: no title is refused
DBCreateTaskNoSimulation(st, title, env) ==
    IF env.dbFault
    THEN [op |-> "CreateTask", err |-> "internal", out |-> NoTask, executed |-> FALSE,
          fault |-> TRUE, tasks |-> st.tasks, nextId |-> st.nextId,
          spans |-> <<SpanOf("db.CreateTask", "Error")>>]
    ELSE DBCreateTaskNoRow(st, title, env)

\* DBCreateTask with a fault seeded: the id is one more than the largest id
\* stored, as in a table without AUTOINCREMENT
DBCreateTaskRowid(st, title, env) ==
    LET ids == {t.id : t \in st.tasks} \cup {0}
        id == 1 + CHOOSE x \in ids : \A y \in ids : y <= x
    IN  IF title = "errorTest" \/ env.dbFault
        THEN [op |-> "CreateTask", err |-> "internal", out |-> NoTask, executed |-> FALSE,
              fault |-> env.dbFault /\ title # "errorTest",
              tasks |-> st.tasks, nextId |-> st.nextId,
              spans |-> <<SpanOf("db.CreateTask", "Error")>>]
        ELSE [op |-> "CreateTask", err |-> "nil",
              out |-> [id |-> id, title |-> title, completed |-> FALSE,
                       created_at |-> st.now + env.elapsed],
              executed |-> TRUE, fault |-> FALSE,
              tasks |-> st.tasks \cup {[id |-> id, title |-> title, completed |-> FALSE,
                                        created_at |-> st.now + env.elapsed]},
              nextId |-> st.nextId + 1,
              spans |-> <<SpanOf("db.CreateTask", "Unset")>>]

DBCreateTask(st, title, env) ==
    LET span == StartSpan("db.CreateTask")
        task == [id |-> st.nextId, title |-> title, completed |-> FALSE,
                 created_at |-> st.now + env.elapsed]
    IN  deferSpanEnd(
        IF title = "errorTest"
        THEN [op |-> "CreateTask", err |-> "internal", out |-> NoTask, executed |-> FALSE,
              fault |-> FALSE,
              tasks |-> st.tasks, nextId |-> st.nextId,
              spans |-> <<SetStatus(span, "Error")>>]
        ELSE IF env.dbFault
        THEN [op |-> "CreateTask", err |-> "internal", out |-> NoTask, executed |-> FALSE,
              fault |-> TRUE,
              tasks |-> st.tasks, nextId |-> st.nextId,
              spans |-> <<SetStatus(span, "Error")>>]
        ELSE [op |-> "CreateTask", err |-> "nil", out |-> task, executed |-> TRUE,
              fault |-> FALSE,
              tasks |-> st.tasks \cup {task}, nextId |-> st.nextId + 1,
              spans |-> <<span>>])

\* DBDeleteTask with a fault seeded: rowsAffected is not looked at
DBDeleteTaskNoCheck(st, id, env) ==
    [op |-> "DeleteTask", err |-> IF env.dbFault THEN "internal" ELSE "nil",
     out |-> NoTask, executed |-> ~env.dbFault, fault |-> env.dbFault,
     tasks |-> IF env.dbFault THEN st.tasks ELSE {t \in st.tasks : t.id # id},
     nextId |-> st.nextId, spans |-> <<SpanOf("db.DeleteTask", "Unset")>>]

DBDeleteTask(st, id, env) ==
    LET span == StartSpan("db.DeleteTask")
        hit == {t \in st.tasks : t.id = id}
        rowsAffected == Cardinality(hit)
    IN  deferSpanEnd(
        IF env.dbFault
        THEN [op |-> "DeleteTask", err |-> "internal", out |-> NoTask, executed |-> FALSE,
              fault |-> TRUE,
              tasks |-> st.tasks, nextId |-> st.nextId, spans |-> <<span>>]
        ELSE [op |-> "DeleteTask", err |-> IF rowsAffected = 0 THEN "ErrNoRows" ELSE "nil",
              out |-> NoTask, executed |-> TRUE, fault |-> FALSE,
              tasks |-> st.tasks \ hit, nextId |-> st.nextId, spans |-> <<span>>])

\* DBCompleteTask with a fault seeded: the UPDATE inverts the flag
DBCompleteTaskToggle(st, id, env) ==
    LET hit == {t \in st.tasks : t.id = id}
        updated == {[t EXCEPT !.completed = ~@] : t \in hit}
    IN  [op |-> "CompleteTask",
         err |-> IF env.dbFault THEN "internal" ELSE IF hit = {} THEN "ErrNoRows" ELSE "nil",
         out |-> IF env.dbFault \/ hit = {} THEN NoTask ELSE CHOOSE t \in updated : TRUE,
         executed |-> ~env.dbFault, fault |-> env.dbFault,
         tasks |-> IF env.dbFault THEN st.tasks ELSE (st.tasks \ hit) \cup updated,
         nextId |-> st.nextId, spans |-> <<SpanOf("db.CompleteTask", "Unset")>>]

\* DBCompleteTask with a fault seeded: the UPDATE matches open tasks only
DBCompleteTaskOnlyOpen(st, id, env) ==
    LET hit == {t \in st.tasks : t.id = id /\ ~t.completed}
        updated == {[t EXCEPT !.completed = TRUE] : t \in hit}
    IN  [op |-> "CompleteTask",
         err |-> IF env.dbFault THEN "internal" ELSE IF hit = {} THEN "ErrNoRows" ELSE "nil",
         out |-> IF env.dbFault \/ hit = {} THEN NoTask ELSE CHOOSE t \in updated : TRUE,
         executed |-> ~env.dbFault, fault |-> env.dbFault,
         tasks |-> IF env.dbFault THEN st.tasks ELSE (st.tasks \ hit) \cup updated,
         nextId |-> st.nextId, spans |-> <<SpanOf("db.CompleteTask", "Unset")>>]

DBCompleteTask(st, id, env) ==
    LET span == StartSpan("db.CompleteTask")
        hit == {t \in st.tasks : t.id = id}
        updated == {[t EXCEPT !.completed = TRUE] : t \in hit}
    IN  deferSpanEnd(
        IF env.dbFault
        THEN [op |-> "CompleteTask", err |-> "internal", out |-> NoTask, executed |-> FALSE,
              fault |-> TRUE,
              tasks |-> st.tasks, nextId |-> st.nextId, spans |-> <<span>>]
        ELSE IF hit = {}
        THEN [op |-> "CompleteTask", err |-> "ErrNoRows", out |-> NoTask, executed |-> TRUE, fault |-> FALSE,
              tasks |-> st.tasks, nextId |-> st.nextId, spans |-> <<span>>]
        ELSE [op |-> "CompleteTask", err |-> "nil", out |-> CHOOSE t \in updated : TRUE,
              executed |-> TRUE, fault |-> FALSE,
              tasks |-> (st.tasks \ hit) \cup updated, nextId |-> st.nextId,
              spans |-> <<span>>])

(***************************************************************************)
(* formatQueryWithArgs.  A statement is a sequence of characters; a bound  *)
(* argument is a driver.NamedValue, of which only Value is used.           *)
(***************************************************************************)
NilValue == [t |-> "nil"]
StringValue(chars) == [t |-> "string", s |-> chars]
IntValue(n) == [t |-> "int", n |-> n]
BoolValue(b) == [t |-> "bool", b |-> b]

\* the switch on arg.Value: NULL, '%s', %d, TRUE or FALSE
RenderValue(v) ==
    IF v.t = "nil" THEN <<"N", "U", "L", "L">>
    ELSE IF v.t = "string" THEN <<"'">> \o v.s \o <<"'">>
    ELSE IF v.t = "int" THEN Itoa(v.n)
    ELSE IF v.b THEN <<"T", "R", "U", "E">>
    ELSE <<"F", "A", "L", "S", "E">>

\* strings.Index: where sub first occurs in s, 0 if nowhere
Index(s, sub) ==
    LET at == {i \in 1..(Len(s) - Len(sub) + 1) : SubSeq(s, i, i + Len(sub) - 1) = sub}
    IN  IF at = {} THEN 0 ELSE CHOOSE i \in at : \A j \in at : i <= j

\* strings.Contains
Contains(s, sub) == Index(s, sub) # 0

\* strings.Replace(s, old, new, 1) for a non-empty old
ReplaceFirst(s, old, new) ==
    IF Index(s, old) = 0 THEN s
    ELSE SubSeq(s, 1, Index(s, old) - 1) \o new
           \o SubSeq(s, Index(s, old) + Len(old), Len(s))

\* the placeholder of argument i (counted from 0): "$i+1" when the
\* statement contains a "$", "?" otherwise
Placeholder(query, i) == IF Contains(query, <<"$">>) THEN <<"$">> \o Itoa(i + 1) ELSE <<"?">>

RECURSIVE formatLoop(_, _, _, _)
\* for i, arg := range args { ... formattedQuery = strings.Replace(...) }
formatLoop(query, formattedQuery, args, i) ==
    IF i >= Len(args) THEN formattedQuery
    ELSE formatLoop(query,
                    ReplaceFirst(formattedQuery, Placeholder(query, i),
                                 RenderValue(args[i + 1])),
                    args, i + 1)

formatQueryWithArgs(query, args) ==
    IF Len(args) = 0 THEN query ELSE formatLoop(query, query, args, 0)

\* what a persistence call leaves in the log of the exchange: the operation,
\* its argument, the error returned, whether its statement was executed, and
\* whether it failed by a fault of the store
DBCall(q, arg) == [op |-> q.op, arg |-> arg, err |-> q.err, executed |-> q.executed,
                   fault |-> q.fault]

(***************************************************************************)
(* The outbound notification of a created task.  env.notify is what the    *)
(* external service does with the one request sent.                        *)
(***************************************************************************)
\* "request_error": http.NewRequestWithContext fails and nothing is sent;
\* "transport_error": client.Do fails; "timeout": the client's 10 s Timeout
\* ends the call; "2xx", "non2xx": the status of the answer
NotifyOutcomes == {"request_error", "transport_error", "timeout", "2xx", "non2xx"}

NotifyFailures == NotifyOutcomes \ {"2xx"}

\* one GET sent to the external service for the task
NotifyAttempt(task, outcome) == [id |-> task.id, title |-> task.title, outcome |-> outcome]

\* notifyExternalAPI with a fault seeded: a failed call is made once more
notifyExternalAPIRetry(task, env) ==
    [attempts |-> IF env.notify = "2xx" THEN <<NotifyAttempt(task, env.notify)>>
                  ELSE <<NotifyAttempt(task, env.notify), NotifyAttempt(task, env.notify)>>,
     outcome |-> env.notify,
     spans |-> <<SpanOf("external.api.notification", "Unset")>>]

\* notifyExternalAPI with a fault seeded: the request is built without the
\* task_title parameter
notifyExternalAPIUntitled(task, env) ==
    [attempts |-> IF env.notify = "request_error" THEN <<>>
                  ELSE <<NotifyAttempt([task EXCEPT !.title = ""], env.notify)>>,
     outcome |-> env.notify,
     spans |-> <<SpanOf("external.api.notification", "Unset")>>]

\* every outcome is logged and the function returns nothing to its caller
notifyExternalAPI(task, env) ==
    deferSpanEnd(
        IF env.notify = "request_error"
        THEN [attempts |-> <<>>, outcome |-> env.notify,
              spans |-> <<StartSpan("external.api.notification")>>]
        ELSE [attempts |-> <<NotifyAttempt(task, env.notify)>>, outcome |-> env.notify,
              spans |-> <<StartSpan("external.api.notification")>>])

(***************************************************************************)
(* HTTPClient.DoWithBodyCapture.  req is the outbound request, net what    *)
(* the network does with it; the result counts the client.Do calls (sent), *)
(* and gives the events added to the span, the errors recorded on it, and  *)
(* the (response, error) pair returned.                                    *)
(***************************************************************************)
\* the stream of a body that the transport may cut short after one token
BodyStream(b, fault) ==
    [data |-> b, pos |-> 0, fault |-> fault, at |-> 1, failed |-> FALSE]

NilResponse == [isNil |-> TRUE, status |-> 0, given |-> NewReader(<<>>)]

\* captureResponse with a fault seeded: the body read is not put back
captureResponseNoRestore(events, net, rd) ==
    IF rd.err # "nil"
    THEN [sent |-> 1, events |-> events, recorded |-> <<"failed to read response body">>,
          err |-> "failed to read response body"] @@ NilResponse
    ELSE [sent |-> 1,
          events |-> events \o <<[name |-> "http.response.body", body |-> rd.bytes,
                                   size |-> Len(rd.bytes), status_code |-> net.status]>>,
          recorded |-> <<>>, err |-> "nil",
          isNil |-> FALSE, status |-> net.status, given |-> rd.stream]

\* the part after client.Do returned a response: the body is read, the
\* event added, an equivalent body put back
captureResponse(events, net, rd) ==
    IF rd.err # "nil"
    THEN [sent |-> 1, events |-> events, recorded |-> <<"failed to read response body">>,
          err |-> "failed to read response body"] @@ NilResponse
    ELSE [sent |-> 1,
          events |-> events \o <<[name |-> "http.response.body", body |-> rd.bytes,
                                   size |-> Len(rd.bytes), status_code |-> net.status]>>,
          recorded |-> <<>>, err |-> "nil",
          isNil |-> FALSE, status |-> net.status, given |-> NewReader(rd.bytes)]

\* resp, err := c.client.Do(req), once, and what follows it
doRequest(events, net) ==
    IF net.outcome # "answer"
    THEN [sent |-> 1, events |-> events, recorded |-> <<net.outcome>>,
          err |-> net.outcome] @@ NilResponse
    ELSE captureResponse(events, net, ReadAll(BodyStream(net.body, net.fault)))

\* the part before client.Do: a request body, if there is one, is read, put
\* back and added as an event; rd is what reading it gave
captureRequest(net, rd) ==
    IF rd.err # "nil"
    THEN [sent |-> 0, events |-> <<>>, recorded |-> <<>>,
          err |-> "failed to read request body"] @@ NilResponse
    ELSE doRequest(<<[name |-> "http.request.body", body |-> rd.bytes,
                       size |-> Len(rd.bytes)]>>, net)

DoWithBodyCapture(req, net) ==
    IF req.hasBody THEN captureRequest(net, ReadAll(BodyStream(req.body, req.fault)))
    ELSE doRequest(<<>>, net)

(***************************************************************************)
(* Handlers.  r is the request [method, route, suffix, body] with body the *)
(* stream the handler may read; the result records what the handler did.   *)
(***************************************************************************)
HResult(handler, calls, metrics, q, notified, read) ==
    [handler |-> handler, calls |-> calls, metrics |-> metrics,
     db |-> q.db, tasks |-> q.tasks, nextId |-> q.nextId, out |-> q.out,
     spans |-> q.spans \o notified.spans, notify |-> notified.attempts,
     notified |-> notified.outcome, read |-> read, panicked |-> FALSE]

\* no persistence call was made
NoDB(st) == [db |-> <<>>, tasks |-> st.tasks, nextId |-> st.nextId, out |-> NoTask,
             spans |-> <<>>]

\* one persistence call was made, with result q
OneDB(q, arg) == [db |-> <<DBCall(q, arg)>>, tasks |-> q.tasks, nextId |-> q.nextId,
                  out |-> q.out, spans |-> q.spans]

NoNotify == [attempts |-> <<>>, outcome |-> "none", spans |-> <<>>]

\* NonNil with a fault seeded: the nil slice is passed on
NonNilSkip(tasks) == tasks

\* if tasks == nil { tasks = []Task{} }
NonNil(tasks) == IF tasks.isNil THEN EmptySlice ELSE tasks

GetTasks(r, st, env) ==
    IF r.method = "OPTIONS"
    THEN HResult("GetTasks", enableCORS \o <<WriteHeader(200)>>, <<>>, NoDB(st), NoNotify, <<>>)
    ELSE IF r.method # "GET"
    THEN HResult("GetTasks", enableCORS \o HttpError("Method not allowed", 405), <<>>,
                 NoDB(st), NoNotify, <<>>)
    ELSE LET counted == <<CounterAdd([method |-> "GET", endpoint |-> "/tasks"])>>
             q == DBGetAllTasks(st, env)
             tasks == NonNil(q.out)
         IN  IF q.err # "nil"
             THEN HResult("GetTasks",
                          enableCORS \o HttpError("Internal server error", 500),
                          counted \o recordRequestMetrics("GET", "/tasks", 500),
                          OneDB(q, 0), NoNotify, <<>>)
             ELSE HResult("GetTasks",
                          enableCORS \o <<SetHeader("Content-Type", "application/json"),
                                          Write(EncodeTasks(tasks))>>,
                          counted \o recordRequestMetrics("GET", "/tasks", 200),
                          OneDB(q, 0), NoNotify, <<>>)

\* CreateDecoded with a fault seeded: the title is not looked at
CreateDecodedNoCheck(req, st, env) ==
    IF req.err
    THEN HResult("CreateTask", enableCORS \o HttpError("Invalid request body", 400),
                 <<>>, NoDB(st), NoNotify, req.read)
    ELSE HResult("CreateTask",
                 enableCORS \o <<SetHeader("Content-Type", "application/json"),
                                 WriteHeader(201),
                                 Write(EncodeTaskLine(DBCreateTask(st, req.title, env).out))>>,
                 recordRequestMetrics("POST", "/tasks", 201),
                 OneDB(DBCreateTask(st, req.title, env), req.title),
                 notifyExternalAPI(DBCreateTask(st, req.title, env).out, env), req.read)

\* CreateTask once the request struct req has been decoded from the body
CreateDecoded(req, st, env) ==
    IF req.err
    THEN HResult("CreateTask", enableCORS \o HttpError("Invalid request body", 400),
                 <<>>, NoDB(st), NoNotify, req.read)
    ELSE IF req.title = ""
    THEN HResult("CreateTask", enableCORS \o HttpError("Title is required", 400),
                 <<>>, NoDB(st), NoNotify, req.read)
    ELSE LET q == DBCreateTask(st, req.title, env)
         IN  IF q.err # "nil"
             THEN HResult("CreateTask",
                          enableCORS \o HttpError("Internal server error", 500),
                          recordRequestMetrics("POST", "/tasks", 500),
                          OneDB(q, req.title), NoNotify, req.read)
             ELSE HResult("CreateTask",
                          enableCORS
                            \o <<SetHeader("Content-Type", "application/json"),
                                 WriteHeader(201),
                                 Write(EncodeTaskLine(q.out))>>,
                          recordRequestMetrics("POST", "/tasks", 201),
                          OneDB(q, req.title),
                          notifyExternalAPI(q.out, env), req.read)

CreateTask(r, st, env) ==
    IF r.method = "OPTIONS"
    THEN HResult("CreateTask", enableCORS \o <<WriteHeader(200)>>, <<>>, NoDB(st), NoNotify, <<>>)
    ELSE IF r.method # "POST"
    THEN HResult("CreateTask", enableCORS \o HttpError("Method not allowed", 405), <<>>,
                 NoDB(st), NoNotify, <<>>)
    ELSE CreateDecoded(DecodeTitle(r.body), st, env)

DeleteTask(r, st, env) ==
    IF r.method = "OPTIONS"
    THEN HResult("DeleteTask", enableCORS \o <<WriteHeader(200)>>, <<>>, NoDB(st), NoNotify, <<>>)
    ELSE IF r.method # "DELETE"
    THEN HResult("DeleteTask", enableCORS \o HttpError("Method not allowed", 405), <<>>,
                 NoDB(st), NoNotify, <<>>)
    ELSE LET id == Atoi(r.suffix)
             q == DBDeleteTask(st, id.n, env)
         IN  IF id.err
             THEN HResult("DeleteTask", enableCORS \o HttpError("Invalid task ID", 400),
                          <<>>, NoDB(st), NoNotify, <<>>)
             ELSE IF q.err = "ErrNoRows"
             THEN HResult("DeleteTask", enableCORS \o HttpError("Task not found", 404),
                          recordRequestMetrics("DELETE", "/tasks/:id", 404),
                          OneDB(q, id.n), NoNotify, <<>>)
             ELSE IF q.err # "nil"
             THEN HResult("DeleteTask",
                          enableCORS \o HttpError("Internal server error", 500),
                          recordRequestMetrics("DELETE", "/tasks/:id", 500),
                          OneDB(q, id.n), NoNotify, <<>>)
             ELSE HResult("DeleteTask", enableCORS \o <<WriteHeader(204)>>,
                          recordRequestMetrics("DELETE", "/tasks/:id", 204),
                          OneDB(q, id.n), NoNotify, <<>>)

CompleteTask(r, st, env) ==
    IF r.method = "OPTIONS"
    THEN HResult("CompleteTask", enableCORS \o <<WriteHeader(200)>>, <<>>, NoDB(st), NoNotify, <<>>)
    ELSE IF r.method # "POST"
    THEN HResult("CompleteTask", enableCORS \o HttpError("Method not allowed", 405), <<>>,
                 NoDB(st), NoNotify, <<>>)
    ELSE LET id == Atoi(TrimSuffix(r.suffix, CompleteSuffix))
             q == DBCompleteTask(st, id.n, env)
         IN  IF id.err
             THEN HResult("CompleteTask", enableCORS \o HttpError("Invalid task ID", 400),
                          <<>>, NoDB(st), NoNotify, <<>>)
             ELSE IF q.err = "ErrNoRows"
             THEN HResult("CompleteTask", enableCORS \o HttpError("Task not found", 404),
                          recordRequestMetrics("POST", "/tasks/:id/complete", 404),
                          OneDB(q, id.n), NoNotify, <<>>)
             ELSE IF q.err # "nil"
             THEN HResult("CompleteTask",
                          enableCORS \o HttpError("Internal server error", 500),
                          recordRequestMetrics("POST", "/tasks/:id/complete", 500),
                          OneDB(q, id.n), NoNotify, <<>>)
             ELSE HResult("CompleteTask",
                          enableCORS \o <<SetHeader("Content-Type", "application/json"),
                                          Write(EncodeTaskLine(q.out))>>,
                          recordRequestMetrics("POST", "/tasks/:id/complete", 200),
                          OneDB(q, id.n), NoNotify, <<>>)

(***************************************************************************)
(* Route dispatch: the two handler functions main registers on the mux.    *)
(***************************************************************************)
\* the route function wrote the response itself
Routed(calls, st) == HResult("route", calls, <<>>, NoDB(st), NoNotify, <<>>)

\* the route function panicked: the server aborts the exchange
Panicked(st) == [Routed(<<>>, st) EXCEPT !.panicked = TRUE]

TasksRoute(r, st, env) ==
    IF r.method \in {"GET", "OPTIONS"} THEN GetTasks(r, st, env)
    ELSE IF r.method = "POST" THEN CreateTask(r, st, env)
    ELSE Routed(HttpError("Method not allowed", 405), st)

\* r.URL.Path is "/tasks/" followed by r.suffix
TasksSlashRoute(r, st, env) ==
    IF r.method \in {"DELETE", "OPTIONS"} THEN DeleteTask(r, st, env)
    ELSE IF r.method = "POST" /\ Len(r.suffix) > 0
    THEN IF Len(r.suffix) < Len(CompleteSuffix)
         THEN Panicked(st)      \* pathSuffix[len(pathSuffix)-9:] is out of range
         ELSE IF SubSeq(r.suffix, Len(r.suffix) - 9 + 1, Len(r.suffix)) = CompleteSuffix
         THEN CompleteTask(r, st, env)
         ELSE Routed(HttpError("Not found", 404), st)
    ELSE Routed(HttpError("Method not allowed", 405), st)

(***************************************************************************)
(* The body-tracing middleware and its response-writer wrapper.            *)
(***************************************************************************)
\* responseWriter{ResponseWriter, body, statusCode}; under is the sequence of
\* calls that reached the embedded ResponseWriter
NewResponseWriter == [body |-> <<>>, statusCode |-> 200, under |-> <<>>]

\* rwWrite with a fault seeded: the bytes are buffered and not forwarded
rwWriteBufferOnly(rw, b) == [rw EXCEPT !.body = @ \o b]

rwWrite(rw, b) ==
    [rw EXCEPT !.body = @ \o b, !.under = Append(@, Write(b))]

\* rwWriteHeader with a fault seeded: the status is forwarded and not kept
rwWriteHeaderNoTrack(rw, statusCode) ==
    [rw EXCEPT !.under = Append(@, WriteHeader(statusCode))]

rwWriteHeader(rw, statusCode) ==
    [rw EXCEPT !.statusCode = statusCode, !.under = Append(@, WriteHeader(statusCode))]

\* Header() is promoted from the embedded writer: the real header map
rwHeaderSet(rw, call) == [rw EXCEPT !.under = Append(@, call)]

RECURSIVE ServeCalls(_, _)
\* the handler's calls, made on the wrapper one after the other
ServeCalls(rw, calls) ==
    IF calls = <<>> THEN rw
    ELSE LET c == Head(calls)
         IN  ServeCalls(IF c.k = "Write" THEN rwWrite(rw, c.b)
                        ELSE IF c.k = "WriteHeader" THEN rwWriteHeader(rw, c.code)
                        ELSE rwHeaderSet(rw, c),
                        Tail(calls))

RequestBodyEvent(b) == [name |-> "http.request.body", body |-> b, size |-> Len(b)]

ResponseBodyEvent(rw) ==
    [name |-> "http.response.body", body |-> rw.body, size |-> Len(rw.body),
     status_code |-> rw.statusCode]

\* CaptureRequestBody with a fault seeded: the body read is not put back
CaptureRequestBodyNoRestore(req) ==
    LET rd == ReadAll(req.body)
    IN  IF req.method # "GET" /\ req.method # "DELETE"
        THEN IF rd.err = "nil"
             THEN [events |-> <<RequestBodyEvent(rd.bytes)>>, body |-> rd.stream,
                   readErr |-> FALSE]
             ELSE [events |-> <<>>, body |-> rd.stream, readErr |-> TRUE]
        ELSE [events |-> <<>>, body |-> req.body, readErr |-> FALSE]

\* CaptureRequestBody with a fault seeded: the read error is not looked at
CaptureRequestBodyIgnoreErr(req) ==
    LET rd == ReadAll(req.body)
    IN  IF req.method # "GET" /\ req.method # "DELETE"
        THEN [events |-> <<RequestBodyEvent(rd.bytes)>>, body |-> NewReader(rd.bytes),
              readErr |-> rd.err # "nil"]
        ELSE [events |-> <<>>, body |-> req.body, readErr |-> FALSE]

\* the request half: req.body is the stream of the connection (never nil on
\* a server request); the result is the events added and the body left in
\* the request
CaptureRequestBody(req) ==
    LET rd == ReadAll(req.body)
    IN  IF req.method # "GET" /\ req.method # "DELETE"
        THEN IF rd.err = "nil"
             THEN [events |-> <<RequestBodyEvent(rd.bytes)>>, body |-> NewReader(rd.bytes),
                   readErr |-> FALSE]
             ELSE [events |-> <<>>, body |-> rd.stream, readErr |-> TRUE]
        ELSE [events |-> <<>>, body |-> req.body, readErr |-> FALSE]

\* the response half, after next.ServeHTTP has returned
CaptureResponseBody(rw) ==
    IF Len(rw.body) > 0 THEN <<ResponseBodyEvent(rw)>> ELSE <<>>

\* next.ServeHTTP: the handler function the middleware was registered around
ServeHTTP(next, r, st, env) ==
    IF next = "tasks" THEN TasksRoute(r, st, env) ELSE TasksSlashRoute(r, st, env)

\* the exchange as the middleware leaves it: in is the request half, h what
\* the handler did, rw the wrapper after the handler's calls; a panic of the
\* handler passes through the middleware and nothing is sent
Traced(in, h, rw) ==
    [h |-> h, rw |-> rw, given |-> in.body, readErr |-> in.readErr,
     events |-> in.events \o (IF h.panicked THEN <<>> ELSE CaptureResponseBody(rw)),
     resp |-> IF h.panicked THEN NoResponse ELSE Deliver(rw.under, NoResponse)]

\* rw := &responseWriter{...}; next.ServeHTTP(rw, r): the handler's calls land
\* on the wrapper
Wrapped(in, h) == Traced(in, h, ServeCalls(NewResponseWriter, h.calls))

\* the handler runs on the request with the body the request half left in it
Handled(next, req, st, env, in) ==
    Wrapped(in, ServeHTTP(next, [req EXCEPT !.body = in.body], st, env))

BodyTracingMiddleware(next, req, st, env) ==
    Handled(next, req, st, env, CaptureRequestBody(req))

(***************************************************************************)
(* State.  tasks, nextId: the table and its AUTOINCREMENT sequence; now:   *)
(* the last reading of the clock (CURRENT_TIMESTAMP); last: the most       *)
(* recent exchange, with the table as it was before it; prev: what the     *)
(* exchange before it did to the table; wr: a response-writer wrapper in   *)
(* the hands of a handler (SpecWriter); proc: the server process, from the *)
(* first line of main to its exit (SpecProcess); cr: one create request    *)
(* inside its handler, statement by statement (SpecCreate); fq: one        *)
(* application of formatQueryWithArgs (SpecFormat); dc: one call of        *)
(* DoWithBodyCapture (SpecCapture); cc: requests in their handlers at the  *)
(* same time (SpecConcurrent).                                             *)
(***************************************************************************)
VARIABLES tasks, nextId, now, last, prev, wr, proc, cr, fq, dc, cc

vars == <<tasks, nextId, now, last, prev, wr, proc, cr, fq, dc, cc>>

Titles == {"a", "errorTest"}

TitleBody(t) == <<LBrace, Member("title", Str(t)), RBrace>>

Request(method, route, suffix, body, fault) ==
    [method |-> method, route |-> route, suffix |-> suffix, body |-> body, fault |-> fault]

\* the environments of one exchange: whether the store statement fails, the
\* time gone by since the clock was last read, what the notified service
\* answers, the order the SELECT returns tied rows in
Envs(req, elapsed, outcomes) ==
    [dbFault : BOOLEAN,
     elapsed : IF req.method = "POST" /\ req.route = "/tasks" THEN elapsed ELSE {0},
     notify : IF req.method = "POST" /\ req.route = "/tasks" THEN outcomes ELSE {"2xx"},
     rows : IF req.method = "GET" /\ req.route = "/tasks" THEN Listings(tasks) ELSE {<<>>}]

NoExchange ==
    [req |-> Request("", "", <<>>, <<>>, "none"),
     before |-> {}, h |-> Routed(<<>>, [tasks |-> {}, nextId |-> 1]),
     rw |-> NewResponseWriter, given |-> NewReader(<<>>), readErr |-> FALSE,
     events |-> <<>>, resp |-> NoResponse]

\* what an exchange did to the table: the row it inserted, the id it
\* deleted or completed; "refused": a create whose title the store refused
Summary(x) ==
    IF x.h.handler = "CreateTask" /\ x.h.db # <<>> /\ ~x.h.db[1].fault
    THEN [did |-> IF x.h.db[1].executed THEN "create" ELSE "refused",
          id |-> x.h.out.id, title |-> x.h.db[1].arg, task |-> x.h.out]
    ELSE IF x.h.tasks = x.before THEN [did |-> "nothing", id |-> 0, title |-> "", task |-> NoTask]
    ELSE IF x.h.handler = "DeleteTask"
    THEN [did |-> "delete", id |-> x.h.db[1].arg, title |-> "", task |-> NoTask]
    ELSE [did |-> "complete", id |-> x.h.db[1].arg, title |-> "", task |-> x.h.out]

\* the wrapper as the middleware hands it to the handler, the calls the
\* handler has made on it, the events added once the handler has returned
NoWriter == [rw |-> NewResponseWriter, calls |-> <<>>, returned |-> FALSE, events |-> <<>>]

\* the telemetry pipelines, in the order InitTelemetry sets them up
Pipelines == <<"trace", "metric", "log">>

\* the process as main is entered: nothing is set up
NewProcess ==
    [pc |-> "resource", otlp |-> FALSE, shutdownFuncs |-> <<>>, db |-> "none",
     routes |-> {}, listening |-> FALSE, listened |-> FALSE, accepted |-> 0,
     fatal |-> "", ran |-> <<>>, shutdownErr |-> "nil", exit |-> "running"]

\* the process once main has started the listener: everything is set up
Serving ==
    [NewProcess EXCEPT !.pc = "serve", !.shutdownFuncs = Pipelines, !.db = "open",
                       !.routes = {"/", "/tasks", "/tasks/"}, !.listening = TRUE,
                       !.listened = TRUE]

\* no create request is in its handler.  pc: the statement the handler is
\* at; body: the request body; req: the decoded request struct; before: the
\* store as the request found it, elapsed: the time gone by when the INSERT
\* reads the clock; q: what the persistence call returned; notify: "none", then
\* "inflight" while client.Do waits for the external service, then the
\* outcome; sent: the requests sent to the external service; calls, metrics:
\* the calls made on the writer and on the instruments so far
NoCreate ==
    [pc |-> "idle", body |-> <<>>, req |-> [err |-> FALSE, title |-> "", read |-> <<>>],
     before |-> [tasks |-> {}, nextId |-> 1, now |-> 1], dbFault |-> FALSE, elapsed |-> 0,
     q |-> NoDB([tasks |-> {}, nextId |-> 1]), notify |-> "none", sent |-> 0,
     calls |-> <<>>, metrics |-> <<>>]

\* formatQueryWithArgs has not been applied
NoFormat == [query |-> <<>>, args |-> <<>>, applied |-> FALSE, out |-> <<>>]

\* the answer of the network to one client.Do: "transport_error" or
\* "timeout" (no response), or a response with a status and a body stream
NoAnswer == [outcome |-> "transport_error", status |-> 0, body |-> <<>>, fault |-> "none"]

\* DoWithBodyCapture has not been called: req is the outbound request (its
\* body nil or a stream), net the answer of the network
NoCapture ==
    [req |-> [hasBody |-> FALSE, body |-> <<>>, fault |-> "none"], net |-> NoAnswer,
     applied |-> FALSE,
     out |-> [sent |-> 0, events |-> <<>>, recorded |-> <<>>, err |-> "nil"] @@ NilResponse]

\* no request is in a handler
NoRequests == <<>>

Init ==
    /\ tasks = {}
    /\ nextId = 1
    /\ now = 1
    /\ last = NoExchange
    /\ prev = Summary(NoExchange)
    /\ wr = NoWriter
    /\ proc = Serving
    /\ cr = NoCreate
    /\ fq = NoFormat
    /\ dc = NoCapture
    /\ cc = NoRequests

\* the handler chain main registers for a path: otelhttp.NewHandler around
\* BodyTracingMiddleware around the route function
Registered(req) == IF req.route = "/tasks" THEN "tasks" ELSE "tasks/*"

Chain(req, st, env) ==
    LET stream == [data |-> req.body, pos |-> 0, fault |-> req.fault, at |-> 1,
                   failed |-> FALSE]
        r == [method |-> req.method, route |-> req.route, suffix |-> req.suffix,
              body |-> stream]
    IN  BodyTracingMiddleware(Registered(req), r, st, env)

\* one exchange: the request runs through its chain to completion; maxId caps
\* the AUTOINCREMENT sequence
Serve(req, env, maxId) ==
    \E m \in {Chain(req, [tasks |-> tasks, nextId |-> nextId, now |-> now], env)} :
        /\ m.h.nextId <= maxId + 1
        /\ tasks' = m.h.tasks
        /\ nextId' = m.h.nextId
        /\ now' = IF m.h.nextId # nextId THEN now + env.elapsed ELSE now
        /\ now' <= MaxTime
        /\ last' = [req |-> req, before |-> tasks, h |-> m.h, rw |-> m.rw,
                    given |-> m.given, readErr |-> m.readErr, events |-> m.events,
                    resp |-> m.resp]
        /\ UNCHANGED <<wr, proc, cr, fq, dc, cc>>

(***************************************************************************)
(* Spec: sequences of the four operations of the API, as the frontend      *)
(* issues them, against the store, with time passing between inserts and   *)
(* a notified service that answers.                                        *)
(***************************************************************************)
\* identifiers in paths: the ones handed out, one never handed out, a non-number
IdSegments == {Itoa(i) : i \in 1..(MaxId + 1)} \cup {<<"x">>}

CreateBodies == {TitleBody(t) : t \in Titles \cup {""}} \cup {<<LBrace>>}

ListRequest ==
    \E env \in Envs(Request("GET", "/tasks", <<>>, <<>>, "none"), {0, 1}, {"2xx"}) :
        /\ Serve(Request("GET", "/tasks", <<>>, <<>>, "none"), env, MaxId)
        /\ prev' = Summary(last)

CreateRequest ==
    \E body \in CreateBodies :
        \E env \in Envs(Request("POST", "/tasks", <<>>, body, "none"), {0, 1}, {"2xx"}) :
            /\ Serve(Request("POST", "/tasks", <<>>, body, "none"), env, MaxId)
            /\ prev' = Summary(last)

DeleteRequest ==
    \E seg \in IdSegments :
        \E env \in Envs(Request("DELETE", "/tasks/", seg, <<>>, "none"), {0, 1}, {"2xx"}) :
            /\ Serve(Request("DELETE", "/tasks/", seg, <<>>, "none"), env, MaxId)
            /\ prev' = Summary(last)

CompleteRequest ==
    \E seg \in IdSegments :
        \E env \in Envs(Request("POST", "/tasks/", seg \o CompleteSuffix, <<>>, "none"), {0, 1}, {"2xx"}) :
            /\ Serve(Request("POST", "/tasks/", seg \o CompleteSuffix, <<>>, "none"),
                     env, MaxId)
            /\ prev' = Summary(last)

Next == ListRequest \/ CreateRequest \/ DeleteRequest \/ CompleteRequest

Spec == Init /\ [][Next]_vars

(***************************************************************************)
(* SpecWire: the requests a client can put on the wire for the two         *)
(* registered paths (any method, path suffixes, bodies, transport faults   *)
(* of the body, any answer of the notified service), against a store of    *)
(* at most MaxWireId inserted rows.                                        *)
(***************************************************************************)
Methods == {"GET", "POST", "DELETE", "OPTIONS", "PUT"}

Bodies ==
    {<<>>, <<LBrace>>, <<LBrace, RBrace>>}
      \cup {TitleBody(t) : t \in Titles \cup {""}}
      \cup {<<LBrace, Member("title", Num(5)), RBrace>>,
            TitleBody("a") \o <<Garbage>>,
            TitleBody("errortest")}

Suffixes ==
    {<<>>, <<"x">>, <<"x">> \o CompleteSuffix,
     <<"1", "2", "3", "4", "5", "6", "7", "8", "9">>}
      \cup {Itoa(i) : i \in 1..(MaxWireId + 1)}
      \cup {Itoa(i) \o CompleteSuffix : i \in 1..(MaxWireId + 1)}

Faults == {"none", "eof", "sticky"}

\* a transport fault cuts a body after its first token
Faulty(body) == IF Len(body) > 1 THEN Faults ELSE {"none"}

\* requests to /tasks: any method; any body on POST, a sample body or none
\* on the other methods
TasksRequests ==
    { r \in [method : Methods, route : {"/tasks"}, suffix : {<<>>}, body : Bodies,
             fault : Faults] :
        /\ r.method # "POST" => r.body \in {<<>>, TitleBody("a")}
        /\ r.fault \in Faulty(r.body) }

\* requests to /tasks/...: DELETE and POST of every suffix without a body;
\* the other methods, and the requests with a body, on two sample suffixes
TasksSlashRequests ==
    { Request(m, "/tasks/", s, <<>>, "none") : m \in {"DELETE", "POST"}, s \in Suffixes }
      \cup { Request(m, "/tasks/", s, <<>>, "none") :
               m \in {"GET", "OPTIONS", "PUT"}, s \in {<<>>, Itoa(1)} }
      \cup { Request(m, "/tasks/", Itoa(1) \o CompleteSuffix, TitleBody("a"), f) :
               m \in {"POST", "OPTIONS", "PUT", "DELETE"}, f \in Faults }

ExchangeTasks ==
    \E req \in TasksRequests :
        /\ \E env \in Envs(req, {0}, NotifyOutcomes) : Serve(req, env, MaxWireId)
        /\ UNCHANGED prev

ExchangeTasksSlash ==
    \E req \in TasksSlashRequests :
        /\ \E env \in Envs(req, {0}, NotifyOutcomes) : Serve(req, env, MaxWireId)
        /\ UNCHANGED prev

NextWire == ExchangeTasks \/ ExchangeTasksSlash

SpecWire == Init /\ [][NextWire]_vars

(***************************************************************************)
(* SpecWriter: the response-writer wrapper under any handler: a handler    *)
(* makes up to MaxCalls calls on the wrapper it is given, then returns.    *)
(***************************************************************************)
Chunks == {<<>>, <<Text("a")>>, <<Text("b"), Text("c")>>}

Codes == {200, 201, 404}

HandlerWrite ==
    \E b \in Chunks :
        /\ ~wr.returned
        /\ Len(wr.calls) < MaxCalls
        /\ wr' = [wr EXCEPT !.rw = rwWrite(@, b), !.calls = Append(@, Write(b))]
        /\ UNCHANGED <<tasks, nextId, now, last, prev, proc, cr, fq, dc, cc>>

HandlerWriteHeader ==
    \E code \in Codes :
        /\ ~wr.returned
        /\ Len(wr.calls) < MaxCalls
        /\ wr' = [wr EXCEPT !.rw = rwWriteHeader(@, code),
                            !.calls = Append(@, WriteHeader(code))]
        /\ UNCHANGED <<tasks, nextId, now, last, prev, proc, cr, fq, dc, cc>>

\* next.ServeHTTP returns: the middleware adds the response event
HandlerReturn ==
    /\ ~wr.returned
    /\ wr' = [wr EXCEPT !.returned = TRUE, !.events = CaptureResponseBody(wr.rw)]
    /\ UNCHANGED <<tasks, nextId, now, last, prev, proc, cr, fq, dc, cc>>

NextWriter == HandlerWrite \/ HandlerWriteHeader \/ HandlerReturn

SpecWriter == Init /\ [][NextWriter]_vars

(***************************************************************************)
(* SpecProcess: the server process.  main sets up telemetry (the resource, *)
(* then the trace, metric and log pipelines), opens the store, registers   *)
(* the routes, starts the listener in a goroutine and waits for a signal;  *)
(* on the signal it stops the listener and returns, which runs the         *)
(* deferred db.Close and the deferred telemetry shutdown.                  *)
(***************************************************************************)
\* log.Fatal: the message is printed and os.Exit(1) ends the process at
\* once; deferred functions do not run
Fatal(p, what) == [p EXCEPT !.pc = "exited", !.fatal = what, !.exit = "1"]

\* InitTelemetry up to the first exporter: resource.New, os.Getenv; on an
\* error InitTelemetry returns it and main calls log.Fatal
InitResource(p, otlp, ok) ==
    IF ok THEN [p EXCEPT !.pc = "exporter", !.otlp = otlp] ELSE Fatal(p, "telemetry")

\* the next exporter of InitTelemetry and its provider: the provider's
\* Shutdown is appended to shutdownFuncs
SetUpPipeline(p, ok) ==
    IF ok
    THEN [p EXCEPT !.shutdownFuncs = Append(@, Pipelines[Len(@) + 1]),
                   !.pc = IF Len(p.shutdownFuncs) + 1 = Len(Pipelines)
                          THEN "NewDB" ELSE "exporter"]
    ELSE Fatal(p, "telemetry")

\* AfterNewDB with a fault seeded: the error is logged and main goes on
AfterNewDBLogOnly(p, ok) ==
    [p EXCEPT !.db = IF ok THEN "open" ELSE "none", !.pc = "Handle",
              !.fatal = IF ok THEN @ ELSE "db"]

\* db, err := NewDB(...); if err != nil { log.Fatal(...) }
AfterNewDB(p, ok) ==
    IF ok THEN [p EXCEPT !.db = "open", !.pc = "Handle"] ELSE Fatal(p, "db")

\* the three http.Handle calls
Handle(p) == [p EXCEPT !.routes = {"/", "/tasks", "/tasks/"}, !.pc = "serve"]

\* the goroutine's srv.ListenAndServe: the port is bound, or log.Fatal
ListenAndServe(p, ok) ==
    IF ok THEN [p EXCEPT !.listening = TRUE, !.listened = TRUE] ELSE Fatal(p, "listen")

\* <-quit; srv.Shutdown(shutdownCtx)
srvShutdown(p) == [p EXCEPT !.listening = FALSE, !.pc = "deferred"]

\* defer db.Close()
dbClose(p) == [p EXCEPT !.db = "closed", !.pc = "shutdown"]

RECURSIVE shutdownLoop(_, _, _, _)
\* for _, fn := range shutdownFuncs { err = fn(ctx) }; fails[f] says whether
\* the Shutdown of pipeline f returns an error; that error is written f
shutdownLoop(fns, fails, ran, err) ==
    IF fns = <<>> THEN [ran |-> ran, err |-> err]
    ELSE shutdownLoop(Tail(fns), fails,
                      Append(ran, [fn |-> Head(fns), failed |-> fails[Head(fns)]]),
                      IF fails[Head(fns)] THEN Head(fns) ELSE "nil")

\* the shutdown procedure InitTelemetry returns
shutdown(fns, fails) == shutdownLoop(fns, fails, <<>>, "nil")

\* the deferred shutdown(ctx) of main, then main returns
TelemetryShutdown(p, fails) ==
    [p EXCEPT !.ran = shutdown(p.shutdownFuncs, fails).ran,
              !.shutdownErr = shutdown(p.shutdownFuncs, fails).err,
              !.pc = "exited", !.exit = "0"]

StartTelemetry ==
    /\ proc.pc = "resource"
    /\ \E otlp \in BOOLEAN, ok \in BOOLEAN : proc' = InitResource(proc, otlp, ok)
    /\ UNCHANGED <<tasks, nextId, now, last, prev, wr, cr, fq, dc, cc>>

SetUpExporter ==
    /\ proc.pc = "exporter"
    /\ \E ok \in BOOLEAN : proc' = SetUpPipeline(proc, ok)
    /\ UNCHANGED <<tasks, nextId, now, last, prev, wr, cr, fq, dc, cc>>

OpenStore ==
    /\ proc.pc = "NewDB"
    /\ \E ok \in BOOLEAN : proc' = AfterNewDB(proc, ok)
    /\ UNCHANGED <<tasks, nextId, now, last, prev, wr, cr, fq, dc, cc>>

RegisterRoutes ==
    /\ proc.pc = "Handle"
    /\ proc' = Handle(proc)
    /\ UNCHANGED <<tasks, nextId, now, last, prev, wr, cr, fq, dc, cc>>

StartListener ==
    /\ proc.pc = "serve"
    /\ ~proc.listened
    /\ \E ok \in BOOLEAN : proc' = ListenAndServe(proc, ok)
    /\ UNCHANGED <<tasks, nextId, now, last, prev, wr, cr, fq, dc, cc>>

AcceptRequest ==
    /\ proc.listening
    /\ proc.accepted < MaxAccepted
    /\ proc' = [proc EXCEPT !.accepted = @ + 1]
    /\ UNCHANGED <<tasks, nextId, now, last, prev, wr, cr, fq, dc, cc>>

Interrupt ==
    /\ proc.pc = "serve"
    /\ proc' = srvShutdown(proc)
    /\ UNCHANGED <<tasks, nextId, now, last, prev, wr, cr, fq, dc, cc>>

CloseStore ==
    /\ proc.pc = "deferred"
    /\ proc' = dbClose(proc)
    /\ UNCHANGED <<tasks, nextId, now, last, prev, wr, cr, fq, dc, cc>>

ShutdownTelemetry ==
    /\ proc.pc = "shutdown"
    /\ \E fails \in [{"trace", "metric", "log"} -> BOOLEAN] :
           proc' = TelemetryShutdown(proc, fails)
    /\ UNCHANGED <<tasks, nextId, now, last, prev, wr, cr, fq, dc, cc>>

InitProcess ==
    /\ tasks = {}
    /\ nextId = 1
    /\ now = 1
    /\ last = NoExchange
    /\ prev = Summary(NoExchange)
    /\ wr = NoWriter
    /\ proc = NewProcess
    /\ cr = NoCreate
    /\ fq = NoFormat
    /\ dc = NoCapture
    /\ cc = NoRequests

NextProcess ==
    \/ StartTelemetry \/ SetUpExporter \/ OpenStore \/ RegisterRoutes \/ StartListener
    \/ AcceptRequest \/ Interrupt \/ CloseStore \/ ShutdownTelemetry

SpecProcess == InitProcess /\ [][NextProcess]_vars

(***************************************************************************)
(* SpecCreate: one POST /tasks inside CreateTask, statement by statement:  *)
(* enableCORS, decoding and validation, the persistence call, the outbound *)
(* notification (sent, then answered by the external service or ended by   *)
(* the client's timeout), the response, the metrics.                       *)
(***************************************************************************)
\* CreateTask is entered with a POST: h.enableCORS(w)
createEnter(body, st, fault, elapsed) ==
    [NoCreate EXCEPT !.pc = "decode", !.body = body, !.before = st, !.dbFault = fault,
                     !.elapsed = elapsed, !.calls = enableCORS]

\* the request struct is decoded and validated: 400 and return, or on
createDecode(c, req) ==
    IF req.err
    THEN [c EXCEPT !.req = req, !.calls = @ \o HttpError("Invalid request body", 400),
                   !.pc = "returned"]
    ELSE IF req.title = ""
    THEN [c EXCEPT !.req = req, !.calls = @ \o HttpError("Title is required", 400),
                   !.pc = "returned"]
    ELSE [c EXCEPT !.req = req, !.pc = "insert"]

\* task, err := h.db.CreateTask(ctx, req.Title), and the error branch
createInsert(c, q) ==
    IF q.err # "nil"
    THEN [c EXCEPT !.q = OneDB(q, c.req.title),
                   !.calls = @ \o HttpError("Internal server error", 500),
                   !.metrics = recordRequestMetrics("POST", "/tasks", 500),
                   !.pc = "returned"]
    ELSE [c EXCEPT !.q = OneDB(q, c.req.title), !.pc = "notify"]

\* createNotifySend with a fault seeded: the call is started in a goroutine
\* (go h.notifyExternalAPI) and the handler goes on
createNotifySendAsync(c, built) ==
    IF built THEN [c EXCEPT !.notify = "inflight", !.sent = @ + 1, !.pc = "respond"]
    ELSE [c EXCEPT !.notify = "request_error", !.pc = "respond"]

\* h.notifyExternalAPI(ctx, task) up to client.Do: the handler's goroutine
\* builds the request and sends it, and waits for the answer
createNotifySend(c, built) ==
    IF built THEN [c EXCEPT !.notify = "inflight", !.sent = @ + 1, !.pc = "awaitNotify"]
    ELSE [c EXCEPT !.notify = "request_error", !.pc = "respond"]

\* client.Do returns (an answer, a transport error, or the timeout) and
\* notifyExternalAPI returns
createNotifyReturn(c, outcome) ==
    [c EXCEPT !.notify = outcome, !.pc = IF @ = "awaitNotify" THEN "respond" ELSE @]

\* w.Header().Set; w.WriteHeader(201); json.NewEncoder(w).Encode(task)
createRespond(c) ==
    [c EXCEPT !.calls = @ \o <<SetHeader("Content-Type", "application/json"),
                                WriteHeader(201), Write(EncodeTaskLine(c.q.out))>>,
              !.pc = "metrics"]

\* h.recordRequestMetrics(ctx, start, "POST", "/tasks", 201), and the return
createRecord(c) ==
    [c EXCEPT !.metrics = recordRequestMetrics("POST", "/tasks", 201), !.pc = "returned"]

CreateEnter ==
    /\ cr.pc \in {"idle", "returned"}
    /\ cr.notify # "inflight"
    /\ nextId <= MaxId
    /\ \E body \in CreateBodies, fault \in BOOLEAN, elapsed \in {0, 1} :
           /\ now + elapsed <= MaxTime
           /\ cr' = createEnter(body, [tasks |-> tasks, nextId |-> nextId, now |-> now],
                                fault, elapsed)
    /\ UNCHANGED <<tasks, nextId, now, last, prev, wr, proc, fq, dc, cc>>

CreateDecode ==
    /\ cr.pc = "decode"
    /\ cr' = createDecode(cr, DecodeTitle(NewReader(cr.body)))
    /\ UNCHANGED <<tasks, nextId, now, last, prev, wr, proc, fq, dc, cc>>

CreateInsert ==
    /\ cr.pc = "insert"
    /\ \E q \in {DBCreateTask(cr.before, cr.req.title,
                               [dbFault |-> cr.dbFault, elapsed |-> cr.elapsed])} :
           /\ cr' = createInsert(cr, q)
           /\ tasks' = q.tasks
           /\ nextId' = q.nextId
           /\ now' = IF q.nextId # nextId THEN now + cr.elapsed ELSE now
    /\ UNCHANGED <<last, prev, wr, proc, fq, dc, cc>>

CreateNotifySend ==
    /\ cr.pc = "notify"
    /\ \E built \in BOOLEAN : cr' = createNotifySend(cr, built)
    /\ UNCHANGED <<tasks, nextId, now, last, prev, wr, proc, fq, dc, cc>>

CreateNotifyReturn ==
    /\ cr.notify = "inflight"
    /\ \E outcome \in NotifyOutcomes \ {"request_error"} :
           cr' = createNotifyReturn(cr, outcome)
    /\ UNCHANGED <<tasks, nextId, now, last, prev, wr, proc, fq, dc, cc>>

CreateRespond ==
    /\ cr.pc = "respond"
    /\ cr' = createRespond(cr)
    /\ UNCHANGED <<tasks, nextId, now, last, prev, wr, proc, fq, dc, cc>>

CreateRecord ==
    /\ cr.pc = "metrics"
    /\ cr' = createRecord(cr)
    /\ UNCHANGED <<tasks, nextId, now, last, prev, wr, proc, fq, dc, cc>>

NextCreate ==
    \/ CreateEnter \/ CreateDecode \/ CreateInsert \/ CreateNotifySend \/ CreateNotifyReturn
    \/ CreateRespond \/ CreateRecord

SpecCreate == Init /\ [][NextCreate]_vars

(***************************************************************************)
(* SpecFormat: formatQueryWithArgs applied to a statement of up to         *)
(* MaxQueryLen characters with as many bound arguments as it has "?"       *)
(* placeholders (up to MaxArgs), or with none.                             *)
(***************************************************************************)
QueryChars == {"?", "a", "$"}

Queries == UNION {[1..n -> QueryChars] : n \in 0..MaxQueryLen}

ArgValues ==
    {NilValue, BoolValue(TRUE), BoolValue(FALSE), IntValue(7),
     StringValue(<<"b">>), StringValue(<<"?">>), StringValue(<<"$", "1">>)}

\* the number of "?" in a statement
Placeholders(query) == Cardinality({i \in 1..Len(query) : query[i] = "?"})

FormatInputs ==
    {[query |-> q, args |-> a, applied |-> FALSE, out |-> <<>>] :
        q \in {p \in Queries : Placeholders(p) <= MaxArgs},
        a \in UNION {[1..n -> ArgValues] : n \in 0..MaxArgs}}

InitFormat ==
    /\ tasks = {}
    /\ nextId = 1
    /\ now = 1
    /\ last = NoExchange
    /\ prev = Summary(NoExchange)
    /\ wr = NoWriter
    /\ proc = Serving
    /\ cr = NoCreate
    /\ fq \in {f \in FormatInputs : Len(f.args) \in {0, Placeholders(f.query)}}
    /\ dc = NoCapture
    /\ cc = NoRequests

FormatQuery ==
    /\ ~fq.applied
    /\ fq' = [fq EXCEPT !.applied = TRUE, !.out = formatQueryWithArgs(fq.query, fq.args)]
    /\ UNCHANGED <<tasks, nextId, now, last, prev, wr, proc, cr, dc, cc>>

NextFormat == FormatQuery

SpecFormat == InitFormat /\ [][NextFormat]_vars

(***************************************************************************)
(* SpecCapture: DoWithBodyCapture applied to an outbound request, with or  *)
(* without a body, and to every answer of the network: a transport error,  *)
(* the client's timeout, or a response whose body arrives whole or is cut. *)
(***************************************************************************)
CaptureBodies == Chunks \cup {<<Text("d"), Text("e"), Text("f"), Text("g")>>}

CaptureRequests ==
    {[hasBody |-> FALSE, body |-> <<>>, fault |-> "none"]}
      \cup {[hasBody |-> TRUE, body |-> b, fault |-> f] : b \in CaptureBodies, f \in Faults}

Answers ==
    {[NoAnswer EXCEPT !.outcome = o] : o \in {"transport_error", "timeout"}}
      \cup {[outcome |-> "answer", status |-> st, body |-> b, fault |-> f] :
               st \in {200, 404}, b \in CaptureBodies, f \in Faults}

InitCapture ==
    /\ tasks = {}
    /\ nextId = 1
    /\ now = 1
    /\ last = NoExchange
    /\ prev = Summary(NoExchange)
    /\ wr = NoWriter
    /\ proc = Serving
    /\ cr = NoCreate
    /\ fq = NoFormat
    /\ dc \in {[NoCapture EXCEPT !.req = r, !.net = n] :
                  r \in {q \in CaptureRequests : q.fault \in Faulty(q.body)},
                  n \in {a \in Answers : a.fault \in Faulty(a.body)}}
    /\ cc = NoRequests

DoCapture ==
    /\ ~dc.applied
    /\ dc' = [dc EXCEPT !.applied = TRUE, !.out = DoWithBodyCapture(dc.req, dc.net)]
    /\ UNCHANGED <<tasks, nextId, now, last, prev, wr, proc, cr, fq, cc>>

NextCapture == DoCapture

SpecCapture == InitCapture /\ [][NextCapture]_vars

(***************************************************************************)
(* SpecConcurrent: delete and complete requests on one stored task, in     *)
(* flight together.  The server runs each request in its own goroutine;    *)
(* a handler shares nothing with the others but the store, and reaches it  *)
(* with one statement (DELETE, or UPDATE ... RETURNING), which SQLite runs *)
(* as one transaction.  A request arrives (the handler is entered), then   *)
(* its statement executes against the table as it is at that moment and    *)
(* the handler answers from the statement's result.  cc lists the requests *)
(* in arrival order; arr and exe number the arrivals and executions in the *)
(* order they happen.                                                      *)
(***************************************************************************)
MaxConcurrent == 3

Contended == [id |-> 1, title |-> "a", completed |-> FALSE, created_at |-> 1]

Bystander == [id |-> 2, title |-> "b", completed |-> FALSE, created_at |-> 1]

ConRequest(op) ==
    IF op = "delete"
    THEN Request("DELETE", "/tasks/", Itoa(Contended.id), <<>>, "none")
    ELSE Request("POST", "/tasks/", Itoa(Contended.id) \o CompleteSuffix, <<>>, "none")

\* the events so far: arrivals and executions
Clock == Len(cc) + Cardinality({k \in 1..Len(cc) : cc[k].pc = "done"})

\* the table a statement runs against with a fault seeded: the table as it
\* was when the request arrived
StatementStoreAtArrival(c, st) == [st EXCEPT !.tasks = c.seen]

\* the table a statement runs against: the table at the time it executes
StatementStore(c, st) == st

InitConcurrent ==
    /\ tasks \in {{Contended, Bystander},
                  {[Contended EXCEPT !.completed = TRUE], Bystander}}
    /\ nextId = Bystander.id + 1
    /\ now = 1
    /\ last = NoExchange
    /\ prev = Summary(NoExchange)
    /\ wr = NoWriter
    /\ proc = Serving
    /\ cr = NoCreate
    /\ fq = NoFormat
    /\ dc = NoCapture
    /\ cc = NoRequests

ConArrive ==
    \E op \in {"delete", "complete"} :
        /\ Len(cc) < MaxConcurrent
        /\ cc' = Append(cc, [op |-> op, pc |-> "running", arr |-> Clock + 1, exe |-> 0,
                             seen |-> tasks, status |-> 0, fault |-> FALSE,
                             completed |-> FALSE])
        /\ UNCHANGED <<tasks, nextId, now, last, prev, wr, proc, cr, fq, dc>>

ConExecute ==
    \E k \in 1..Len(cc) :
        /\ cc[k].pc = "running"
        /\ \E env \in Envs(ConRequest(cc[k].op), {0}, {"2xx"}) :
             \E m \in {Chain(ConRequest(cc[k].op),
                              StatementStore(cc[k], [tasks |-> tasks, nextId |-> nextId,
                                                     now |-> now]),
                              env)} :
                /\ tasks' = m.h.tasks
                /\ cc' = [cc EXCEPT ![k] = [@ EXCEPT !.pc = "done", !.exe = Clock + 1,
                                                      !.status = m.resp.status,
                                                      !.fault = env.dbFault,
                                                      !.completed = m.h.out.completed]]
        /\ UNCHANGED <<nextId, now, last, prev, wr, proc, cr, fq, dc>>

NextConcurrent == ConArrive \/ ConExecute

SpecConcurrent == InitConcurrent /\ [][NextConcurrent]_vars

(***************************************************************************)
(* Properties.                                                             *)
(***************************************************************************)
\* an exchange has taken place
Exchanged == last.req.method # ""

TaskHandlers == {"GetTasks", "CreateTask", "DeleteTask", "CompleteTask"}

Counters == SelectSeq2(last.h.metrics, {"counter"})
Durations == SelectSeq2(last.h.metrics, {"duration"})

\* the persistence call of the last exchange
Called == last.h.db # <<>>
Call == last.h.db[1]

\* the endpoint template a handler tags its metrics with
Endpoint(handler) ==
    IF handler \in {"GetTasks", "CreateTask"} THEN "/tasks"
    ELSE IF handler = "DeleteTask" THEN "/tasks/:id"
    ELSE "/tasks/:id/complete"

\* one counter increment and one duration observation, tagged as given
RecordedOnce(method, endpoint, status) ==
    LET attrs == [method |-> method, endpoint |-> endpoint, status_code |-> status]
    IN  /\ Len(Counters) = 1
        /\ Len(Durations) = 1
        /\ Counters[1].attrs = attrs
        /\ Durations[1].attrs = attrs

\* C1: a request one of the four handlers takes to its persistence call
\* records exactly one counter increment and exactly one duration
\* observation, both with the status code of the response.
C1_OneIncrementOneObservation ==
    (last.h.handler \in TaskHandlers /\ Called)
        => RecordedOnce(last.req.method, Endpoint(last.h.handler), last.resp.status)

\* C2: a response 400 of a handler's validation (malformed JSON, missing or
\* empty title, non-numeric identifier) records exactly one counter increment
\* and one duration observation tagged method, endpoint template and 400.
C2_ValidationFailureRecorded ==
    (last.h.handler \in TaskHandlers /\ last.resp.status = 400)
        => RecordedOnce(last.req.method, Endpoint(last.h.handler), 400)

\* the last exchange is a list request that the store answered
Listed == last.h.handler = "GetTasks" /\ Called /\ Call.executed

\* how often the encoding of task t occurs in the body of the last response
Occurrences(t) ==
    Cardinality({i \in 1..Len(last.resp.body) : last.resp.body[i] = EncodeTask(t)})

ListedOnceAsCreated ==
    /\ prev.did = "create"
    /\ last.resp.status = 200
    /\ prev.task.title = prev.title
    /\ prev.task.completed = FALSE
    /\ prev.task.id > 0
    /\ prev.task.created_at > 0
    /\ Occurrences(prev.task) = 1

\* C3 as stated: for every non-empty title, a create request followed by a
\* list request returns a list that contains the created task exactly once,
\* with completed=false and a populated id and creation timestamp.
C3_EveryTitleListed ==
    (prev.did \in {"create", "refused"} /\ Listed) => ListedOnceAsCreated

\* C3 amended: for every non-empty title other than "errorTest", a create
\* request followed by a list request returns a list that contains the
\* created task exactly once, with completed=false and a populated id and
\* creation timestamp.
C3_CreatedThenListed ==
    (prev.did \in {"create", "refused"} /\ prev.title # "errorTest" /\ Listed)
        => ListedOnceAsCreated

\* a second insert is listed together with the row of the first
C3_Witness ==
    /\ prev.did = "create"
    /\ Listed
    /\ Cardinality(tasks) = 2
    /\ Occurrences(prev.task) = 1

\* the last exchange is a DELETE that the store executed
Deleted == last.h.handler = "DeleteTask" /\ Called /\ Call.executed

Stored(set, id) == \E t \in set : t.id = id

\* C4: deleting an identifier that matches no stored task yields 404 and
\* leaves the store unchanged; deleting an existing task yields 204, and
\* deleting it again right after yields 404.
C4_DeleteNotFound ==
    Deleted =>
        /\ ~Stored(last.before, Call.arg)
              => last.resp.status = 404 /\ tasks = last.before
        /\ Stored(last.before, Call.arg)
              => /\ last.resp.status = 204
                 /\ tasks = {t \in last.before : t.id # Call.arg}
        /\ (prev.did = "delete" /\ prev.id = Call.arg) => last.resp.status = 404

\* the same task deleted twice in a row: 204, then 404
C4_Witness ==
    /\ Deleted
    /\ prev.did = "delete"
    /\ prev.id = Call.arg
    /\ last.resp.status = 404
    /\ tasks = last.before

\* the last exchange is a completion that the store executed
Completed == last.h.handler = "CompleteTask" /\ Called /\ Call.executed

\* C5: completing an identifier that matches no stored task yields 404;
\* completing a task that is already completed answers 200 with the task,
\* completed=true, and leaves the stored task as it was.
C5_CompleteIdempotent ==
    Completed =>
        /\ ~Stored(last.before, Call.arg)
              => last.resp.status = 404 /\ tasks = last.before
        /\ \A t \in last.before :
              (t.id = Call.arg /\ t.completed)
                  => /\ last.resp.status = 200
                     /\ last.resp.body = EncodeTaskLine(t)
                     /\ last.resp.body[1].completed = TRUE
                     /\ tasks = last.before

\* a completed task is completed again
C5_Witness ==
    /\ Completed
    /\ \E t \in last.before : t.id = Call.arg /\ t.completed
    /\ last.resp.status = 200
    /\ tasks = last.before

\* C6: a list request against a store with zero tasks answers 200 with an
\* empty JSON array (never null), initially and after every task has been
\* deleted.
C6_EmptyListIsArray ==
    (Listed /\ last.before = {})
        => /\ last.resp.status = 200
           /\ last.resp.body = <<[k |-> "["], [k |-> "]"], [k |-> "\n"]>>

\* the table is listed right after its last row was deleted
C6_Witness ==
    /\ Listed
    /\ prev.did = "delete"
    /\ last.before = {}
    /\ last.resp.body = <<[k |-> "["], [k |-> "]"], [k |-> "\n"]>>

EventsNamed(name) ==
    LET RECURSIVE Pick(_)
        Pick(es) == IF es = <<>> THEN <<>>
                    ELSE IF Head(es).name = name THEN <<Head(es)>> \o Pick(Tail(es))
                    ELSE Pick(Tail(es))
    IN  Pick(last.events)

\* the middleware read the body of the last request, and the read succeeded
BodyCaptured ==
    /\ Exchanged
    /\ last.req.method \notin {"GET", "DELETE"}
    /\ ~last.readErr

\* C7: when the method is neither GET nor DELETE and the body is read
\* successfully, the handler is given a stream that reads as exactly the
\* byte sequence the client sent, and exactly one http.request.body event
\* with that content and its length is added to the span.
C7_BodyRestored ==
    BodyCaptured =>
        /\ last.given.pos = 0
        /\ ReadAll(last.given).bytes = last.req.body
        /\ ReadAll(last.given).err = "nil"
        /\ last.h.handler = "CreateTask" /\ last.req.method = "POST"
              => last.h.read = last.req.body
        /\ EventsNamed("http.request.body")
              = <<[name |-> "http.request.body", body |-> last.req.body,
                   size |-> Len(last.req.body)]>>

\* a create whose body spans more than one Read call
C7_Witness ==
    /\ BodyCaptured
    /\ last.h.handler = "CreateTask"
    /\ Len(last.req.body) > ReadChunk
    /\ last.h.read = last.req.body
    /\ last.resp.status = 201

\* the calls of kind k among cs, in order
CallsOf(cs, k) == SelectSeq2(cs, {k})

\* C8: the wrapper forwards every Write and every WriteHeader call to the
\* underlying writer with the same bytes and status code, in the same order,
\* so the client receives the bytes and status the handler produces without
\* the middleware.
C8_WritesForwarded ==
    /\ wr.rw.under = wr.calls
    /\ Deliver(wr.rw.under, NoResponse) = Deliver(wr.calls, NoResponse)

\* a handler that sets a status, writes, and sets a status again
C8_Witness ==
    /\ wr.returned
    /\ Len(wr.calls) = 3
    /\ wr.calls[1].k = "WriteHeader"
    /\ wr.calls[2].k = "Write" /\ wr.calls[2].b # <<>>
    /\ wr.calls[3].k = "WriteHeader" /\ wr.calls[3].code # wr.calls[1].code

\* the same on the registered handlers: what reaches the server's writer is
\* what the handler called, and the response is the one these calls make
WireWritesForwarded ==
    Exchanged =>
        /\ last.rw.under = last.h.calls
        /\ ~last.h.panicked => last.resp = Deliver(last.h.calls, NoResponse)

RECURSIVE WrittenBytes(_)
\* the bytes of the Write calls among cs, concatenated
WrittenBytes(cs) ==
    IF cs = <<>> THEN <<>>
    ELSE IF Head(cs).k = "Write" THEN Head(cs).b \o WrittenBytes(Tail(cs))
    ELSE WrittenBytes(Tail(cs))

\* the status most recently set through WriteHeader among cs, 200 if none
LastStatusSet(cs) ==
    LET hs == CallsOf(cs, "WriteHeader")
    IN  IF hs = <<>> THEN 200 ELSE hs[Len(hs)].code

ExpectedResponseEvents(cs) ==
    IF WrittenBytes(cs) = <<>> THEN <<>>
    ELSE <<[name |-> "http.response.body", body |-> WrittenBytes(cs),
            size |-> Len(WrittenBytes(cs)), status_code |-> LastStatusSet(cs)]>>

\* C10: after the handler returns, an http.response.body event is emitted
\* iff at least one response byte was written; its content is the
\* concatenation of the bytes written, its size their count, its status_code
\* the status most recently set through WriteHeader, 200 when never set.
C10_ResponseEvent ==
    /\ wr.returned => wr.events = ExpectedResponseEvents(wr.calls)
    /\ ~wr.returned => wr.events = <<>>

\* a handler that set a status other than 200 last and wrote bytes
C10_Witness ==
    /\ wr.returned
    /\ Len(CallsOf(wr.calls, "WriteHeader")) >= 1
    /\ LastStatusSet(wr.calls) = 404
    /\ Len(WrittenBytes(wr.calls)) >= 1
    /\ Len(wr.events) = 1
    /\ wr.events[1].status_code = 404

\* the same on the registered handlers
WireResponseEvent ==
    (Exchanged /\ ~last.h.panicked) =>
        EventsNamed("http.response.body") = ExpectedResponseEvents(last.h.calls)

\* the telemetry shutdown has run to its end
ShutDown == proc.pc = "exited" /\ proc.exit = "0"

\* the pipelines whose Shutdown returned an error, in the order they ran
FailedShutdowns ==
    LET RECURSIVE Pick(_)
        Pick(rs) == IF rs = <<>> THEN <<>>
                    ELSE IF Head(rs).failed THEN <<Head(rs).fn>> \o Pick(Tail(rs))
                    ELSE Pick(Tail(rs))
    IN  Pick(proc.ran)

\* C11: the shutdown procedure InitTelemetry returns runs the trace, metric
\* and log pipeline shutdowns in that sequence and, when more than one of
\* them fails, returns the first error that occurred.
C11_ShutdownFirstError ==
    ShutDown =>
        /\ [i \in 1..Len(proc.ran) |-> proc.ran[i].fn] = Pipelines
        /\ Len(FailedShutdowns) > 1 => proc.shutdownErr = FailedShutdowns[1]

\* C12: if telemetry initialization or store setup fails at startup, the
\* process ends without registering a route or starting the listener, and
\* no request is accepted; the listener runs only with all three pipelines
\* set up, the store open and the routes registered.
C12_NoServingAfterInitError ==
    /\ proc.fatal \in {"telemetry", "db"}
          => /\ proc.pc = "exited"
             /\ proc.exit = "1"
             /\ proc.routes = {}
             /\ ~proc.listening /\ ~proc.listened
             /\ proc.accepted = 0
    /\ (proc.listening \/ proc.routes # {})
          => /\ proc.shutdownFuncs = Pipelines
             /\ proc.db # "none"
             /\ proc.fatal \notin {"telemetry", "db"}
    /\ proc.listening => proc.db = "open" /\ proc.routes = {"/", "/tasks", "/tasks/"}

\* the store fails to open after all three pipelines were set up
C12_Witness ==
    /\ proc.fatal = "db"
    /\ proc.shutdownFuncs = Pipelines
    /\ proc.pc = "exited"
    /\ proc.routes = {}

\* the last exchange is a create whose row the store inserted
Created == last.h.handler = "CreateTask" /\ Called /\ Call.executed

\* C13: when the outbound notification of a created task fails (request
\* construction error, transport failure, timeout or non-2xx status), the
\* create request still answers 201 with the created task, the task stays
\* in the store, the recorded metric carries status 201, and the
\* notification is not retried.
C13_NotificationIsolated ==
    (Created /\ last.h.notified \in NotifyFailures) =>
        /\ last.resp.status = 201
        /\ last.resp.body = EncodeTaskLine(last.h.out)
        /\ last.h.out \in tasks
        /\ tasks = last.before \cup {last.h.out}
        /\ RecordedOnce("POST", "/tasks", 201)
        /\ Len(last.h.notify) <= 1
        /\ \A i \in 1..Len(last.h.notify) : last.h.notify[i].id = last.h.out.id

\* a create whose notification timed out
C13_Witness ==
    /\ Created
    /\ last.h.notified = "timeout"
    /\ Len(last.h.notify) = 1
    /\ last.resp.status = 201
    /\ last.h.out \in tasks

\* the create response has been written
Responded201 == \E i \in 1..Len(cr.calls) : cr.calls[i] = WriteHeader(201)

CreateStepsAgree ==
    cr.pc = "returned" =>
        LET h == CreateDecoded(cr.req, cr.before,
                               [dbFault |-> cr.dbFault, elapsed |-> cr.elapsed,
                                notify |-> cr.notify])
        IN  /\ h.calls = cr.calls
            /\ h.metrics = cr.metrics
            /\ h.db = cr.q.db
            /\ h.out = cr.q.out
            /\ h.tasks = tasks
            /\ Len(h.notify) = cr.sent

\* the permissive cross-origin headers
CorsHeaders ==
    {[name |-> enableCORS[i].name, val |-> enableCORS[i].val] : i \in 1..Len(enableCORS)}

\* C15: every response to a request to /tasks or /tasks/... (any method,
\* any outcome, the method-not-allowed and not-found responses of the route
\* dispatch included) carries the permissive cross-origin headers.
C15_CorsOnEveryResponse ==
    (Exchanged /\ last.resp.status # 0) => CorsHeaders \subseteq last.resp.headers

\* the responses the handlers write carry them (the responses the route
\* dispatch writes itself do not)
HandlerResponsesCarryCors ==
    (Exchanged /\ last.h.handler \in TaskHandlers) => CorsHeaders \subseteq last.resp.headers

\* the last request reached the handler of its method and fails that
\* handler's validation: a body that is not a JSON object with a string
\* title (or that could not be read), an empty or missing title, an
\* identifier that is not a number
FailsValidation ==
    \/ /\ last.h.handler = "CreateTask" /\ last.req.method = "POST"
       /\ \/ last.readErr
          \/ DecodeValue(last.req.body).err
          \/ DecodeValue(last.req.body).title = ""
    \/ /\ last.h.handler = "DeleteTask" /\ last.req.method = "DELETE"
       /\ Atoi(last.req.suffix).err
    \/ /\ last.h.handler = "CompleteTask" /\ last.req.method = "POST"
       /\ Atoi(TrimSuffix(last.req.suffix, CompleteSuffix)).err

\* C16: a request that fails validation (malformed JSON, missing or empty
\* title, non-numeric identifier) is answered 400 without any persistence
\* operation being invoked, and the task store is unchanged by it.
C16_ValidationNeverReachesStore ==
    /\ FailsValidation
          => /\ last.resp.status = 400
             /\ last.h.db = <<>>
             /\ last.h.spans = <<>>
             /\ tasks = last.before
             /\ last.h.nextId = nextId
    /\ (Exchanged /\ last.resp.status = 400) => FailsValidation /\ ~Called

\* a non-numeric identifier is refused while a task is stored
C16_Witness ==
    /\ FailsValidation
    /\ last.h.handler = "DeleteTask"
    /\ last.req.suffix = <<"x">>
    /\ last.resp.status = 400
    /\ tasks # {}
    /\ tasks = last.before

\* the names of the spans the last exchange is to start: the span of its
\* persistence call, then, for a created task, the span of the notification
ExpectedSpanNames ==
    (IF Called THEN <<"db." \o Call.op>> ELSE <<>>)
      \o (IF Created THEN <<"external.api.notification">> ELSE <<>>)

\* C17: every span the program starts (db.GetAllTasks, db.CreateTask,
\* db.DeleteTask, db.CompleteTask, external.api.notification) is ended
\* exactly once on every exit path of the operation that started it, every
\* early error return included.
C17_SpansEndedOnce ==
    Exchanged =>
        /\ [i \in 1..Len(last.h.spans) |-> last.h.spans[i].name] = ExpectedSpanNames
        /\ \A i \in 1..Len(last.h.spans) : last.h.spans[i].ends = 1

\* a persistence call that returned early with an error
C17_Witness ==
    /\ Called
    /\ Call.err = "internal"
    /\ Call.fault
    /\ Len(last.h.spans) = 1
    /\ last.h.spans[1].ends = 1

\* the request of the step addresses task id with the given handler
Addresses(x, handler, id) ==
    /\ x.h.handler = handler
    /\ x.h.db # <<>>
    /\ x.h.db[1].arg = id

\* what one step may do to the stored tasks
TaskStep ==
    /\ \A t \in tasks : \A u \in tasks' :
          u.id = t.id
              => /\ u.title = t.title
                 /\ u.created_at = t.created_at
                 /\ t.completed => u.completed
                 /\ (u.completed /\ ~t.completed)
                       => Addresses(last', "CompleteTask", t.id)
    /\ \A t \in tasks :
          (\A u \in tasks' : u.id # t.id) => Addresses(last', "DeleteTask", t.id)
    /\ \A u \in tasks' :
          (\A t \in tasks : t.id # u.id)
              => /\ last'.h.handler = "CreateTask"
                 /\ ~u.completed
                 /\ u.id = nextId
    /\ \A u, v \in tasks' : u.id = v.id => u = v

\* C18: across any sequence of create, list, complete and delete requests,
\* a stored task's id, title and creation timestamp never change; its
\* completed flag changes only from false to true and only through a
\* complete request on that id, and stays true until the task is deleted;
\* a complete or delete request changes no task other than the one
\* addressed.
C18_TaskImmutable == [][TaskStep]_vars

\* a task is completed while another, completed before, stays as it is
C18_Witness ==
    /\ Completed
    /\ last.resp.status = 200
    /\ \E t \in last.before : t.id = Call.arg /\ ~t.completed
    /\ \E t \in last.before : t.id # Call.arg /\ t.completed /\ t \in tasks

\* the last request is a POST /tasks that CreateTask decoded to this title
CreateOf(title) ==
    /\ last.h.handler = "CreateTask"
    /\ last.req.method = "POST"
    /\ ~last.readErr
    /\ ~DecodeValue(last.req.body).err
    /\ DecodeValue(last.req.body).title = title

\* C19: a create request whose title is exactly "errorTest" always fails
\* with an internal error (500), inserts no row, marks the db.CreateTask
\* span with error status, sends no outbound notification and leaves the
\* store unchanged; every other non-empty title is not affected: unless the
\* store itself fails, its task is inserted and returned with 201.
C19_ErrorTestRefused ==
    /\ CreateOf("errorTest")
          => /\ last.resp.status = 500
             /\ Called /\ Call.arg = "errorTest" /\ Call.err = "internal"
             /\ tasks = last.before
             /\ last.h.nextId = nextId
             /\ last.h.spans = <<[name |-> "db.CreateTask", ends |-> 1, status |-> "Error"]>>
             /\ last.h.notify = <<>>
             /\ last.h.notified = "none"
    /\ \A title \in {"a", "errortest"} :
          (CreateOf(title) /\ ~Call.fault)
              => /\ last.resp.status = 201
                 /\ last.h.out.title = title
                 /\ last.h.out \in tasks
                 /\ last.h.spans[1].status = "Unset"

\* "errorTest" is refused while a task is stored
C19_Witness ==
    /\ CreateOf("errorTest")
    /\ last.resp.status = 500
    /\ tasks # {}
    /\ tasks = last.before

RECURSIVE Substituted(_, _)
\* the statement with its i-th "?" replaced by the rendering of the i-th
\* argument
Substituted(query, args) ==
    IF query = <<>> THEN <<>>
    ELSE IF Head(query) = "?" /\ args # <<>>
    THEN RenderValue(Head(args)) \o Substituted(Tail(query), Tail(args))
    ELSE <<Head(query)>> \o Substituted(Tail(query), args)

\* a statement with "?" placeholders: no "$" occurs in its text
QuestionMarkStatement == ~Contains(fq.query, <<"$">>)

\* C20: for a statement with k "?" placeholders and k bound arguments,
\* formatQueryWithArgs returns the statement in which the i-th placeholder
\* is replaced by the rendering of the i-th argument (strings quoted,
\* booleans as TRUE/FALSE, absent values as NULL), for every combination of
\* argument values, string values that contain "?" included; with zero
\* arguments it returns the statement unchanged.
C20_PlaceholdersSubstituted ==
    (fq.applied /\ QuestionMarkStatement) =>
        /\ Len(fq.args) = Placeholders(fq.query)
              => fq.out = Substituted(fq.query, fq.args)
        /\ Len(fq.args) = 0 => fq.out = fq.query

\* the same holds when no string argument but the last contains a "?"
FormatCorrectWithoutQuestionMarkValues ==
    (fq.applied /\ QuestionMarkStatement
       /\ \A i \in 1..(Len(fq.args) - 1) :
             fq.args[i].t = "string" => ~Contains(fq.args[i].s, <<"?">>)) =>
        /\ Len(fq.args) = Placeholders(fq.query)
              => fq.out = Substituted(fq.query, fq.args)
        /\ Len(fq.args) = 0 => fq.out = fq.query

\* the events of the given name among es
Named(es, name) ==
    LET RECURSIVE Pick(_)
        Pick(xs) == IF xs = <<>> THEN <<>>
                    ELSE IF Head(xs).name = name THEN <<Head(xs)>> \o Pick(Tail(xs))
                    ELSE Pick(Tail(xs))
    IN  Pick(es)

\* the request went out and the transport failed: no response came
TransportFailed == dc.out.sent = 1 /\ dc.net.outcome # "answer"

\* C21: DoWithBodyCapture sends the outbound request at most once per call;
\* on a transport-level failure it records the error on the span, returns
\* the error with no response, and emits no http.response.body event; on
\* success it emits exactly one http.response.body event and hands the
\* caller a response body whose content equals the bytes received.
C21_CaptureOnceAndRestore ==
    dc.applied =>
        /\ dc.out.sent <= 1
        /\ (~dc.req.hasBody \/ dc.req.fault = "none") => dc.out.sent = 1
        /\ TransportFailed
              => /\ dc.out.recorded = <<dc.net.outcome>>
                 /\ dc.out.err = dc.net.outcome
                 /\ dc.out.isNil
                 /\ Named(dc.out.events, "http.response.body") = <<>>
        /\ dc.out.err = "nil"
              => /\ ~dc.out.isNil
                 /\ dc.out.sent = 1
                 /\ dc.out.status = dc.net.status
                 /\ Named(dc.out.events, "http.response.body")
                       = <<[name |-> "http.response.body", body |-> dc.net.body,
                            size |-> Len(dc.net.body), status_code |-> dc.net.status]>>
                 /\ dc.out.given.pos = 0
                 /\ ReadAll(dc.out.given).bytes = dc.net.body
                 /\ ReadAll(dc.out.given).err = "nil"
        /\ dc.out.err # "nil"
              => dc.out.isNil /\ Named(dc.out.events, "http.response.body") = <<>>

\* a response whose body spans more than one Read call is handed on
C21_Witness ==
    /\ dc.applied
    /\ dc.out.err = "nil"
    /\ dc.net.status = 404
    /\ Len(dc.net.body) > ReadChunk
    /\ ReadAll(dc.out.given).bytes = dc.net.body

\* a transport failure: the error is recorded and returned
TransportFailureSeen == dc.applied /\ TransportFailed /\ dc.out.isNil

\* the last request is a POST to /tasks/<suffix>, the suffix not empty and
\* not ending in "/complete"
UnroutedPost ==
    /\ Exchanged
    /\ last.req.method = "POST"
    /\ last.req.route = "/tasks/"
    /\ last.req.suffix # <<>>
    /\ ~HasSuffix(last.req.suffix, CompleteSuffix)

\* C22: every POST request to /tasks/<suffix> with a non-empty suffix that
\* does not end in "/complete", of any length, is answered 404 Not found;
\* the route dispatch never aborts the request without a response.
C22_UnroutedPostIs404 ==
    UnroutedPost => (last.resp.status = 404 /\ ~last.h.panicked)

\* it is so for the suffixes of nine characters or more
LongUnroutedPostIs404 ==
    (UnroutedPost /\ Len(last.req.suffix) >= Len(CompleteSuffix))
        => (last.resp.status = 404 /\ ~last.h.panicked)

\* a POST with a long suffix that is answered 404
LongUnroutedPostSeen ==
    UnroutedPost /\ Len(last.req.suffix) >= Len(CompleteSuffix) /\ last.resp.status = 404

\* no two stored tasks share an identifier, and every identifier in the
\* store was handed out before
IdsDistinct ==
    /\ \A t, u \in tasks : t.id = u.id => t = u
    /\ \A t \in tasks : t.id >= 1 /\ t.id < nextId

\* nextId is one more than the largest identifier ever handed out: it never
\* goes back, a delete included, and a create that inserts returns it and
\* moves it on
IdStep ==
    /\ nextId' >= nextId
    /\ (last'.h.handler = "CreateTask" /\ last'.h.db # <<>> /\ last'.h.db[1].executed)
          => /\ last'.h.out.id = nextId
             /\ nextId' = nextId + 1
             /\ last'.resp.status = 201
             /\ \E t \in tasks' : t.id = nextId /\ t \notin tasks
    /\ ~(last'.h.handler = "CreateTask" /\ last'.h.db # <<>> /\ last'.h.db[1].executed)
          => nextId' = nextId

\* C23: in every reachable store state no two tasks share an identifier,
\* and an identifier returned by a create request is never returned again
\* by a later create request, even after the task that held it has been
\* deleted: each create returns an identifier larger than all returned
\* before.
C23_IdentifiersNeverReused == []IdsDistinct /\ [][IdStep]_vars

\* a create after the only task was deleted: it gets a fresh identifier
C23_Witness ==
    /\ Created
    /\ last.before = {}
    /\ last.h.out.id = 2
    /\ tasks = {last.h.out}

\* the requests of this kind that arrived while the contended task was
\* stored
Found(op) ==
    {k \in 1..Len(cc) : cc[k].op = op /\ \E t \in cc[k].seen : t.id = Contended.id}

\* those of them whose statement the store executed
Executed(op) == {k \in Found(op) : cc[k].pc = "done" /\ ~cc[k].fault}

\* both were in flight at one time: each arrived before the other's
\* statement executed
Concurrent(j, k) ==
    /\ cc[j].pc = "done" /\ cc[k].pc = "done"
    /\ cc[j].arr < cc[k].exe
    /\ cc[k].arr < cc[j].exe

\* the store executed the statement of each of these requests
Answered(G) == \A k \in G : cc[k].pc = "done" /\ ~cc[k].fault

\* the only delete of the run
OnlyDelete(d) == \A k \in 1..Len(cc) : cc[k].op = "delete" => k = d

\* C24: when two or more requests concurrently delete the same existing
\* task, exactly one of them responds 204 and all the others respond 404;
\* when a delete and a complete of the same task run concurrently, the pair
\* of outcomes is that of one of the two serial orders: complete 200 then
\* delete 204, or delete 204 then complete 404.
C24_ConcurrentOutcomesSerial ==
    /\ (/\ \A k \in Found("delete") : cc[k].pc = "done"
        /\ Cardinality(Executed("delete")) >= 2
        /\ \A j, k \in Executed("delete") : j # k => Concurrent(j, k))
          => /\ Cardinality({k \in Executed("delete") : cc[k].status = 204}) = 1
             /\ \A k \in Executed("delete") : cc[k].status \in {204, 404}
    /\ \A d \in Found("delete"), c \in Found("complete") :
          (OnlyDelete(d) /\ Answered({d, c}) /\ Concurrent(d, c))
              => /\ <<cc[c].status, cc[d].status>> \in {<<200, 204>>, <<404, 204>>}
                 /\ cc[c].status = 200 <=> cc[c].exe < cc[d].exe
                 /\ cc[c].status = 200 => cc[c].completed
                 /\ Contended.id \notin {t.id : t \in tasks}
    /\ Bystander \in tasks

\* three deletes of the task in flight together, all answered, and a
\* complete that was in flight with the delete that won
C24_Witness ==
    /\ Len(cc) = MaxConcurrent
    /\ \A k \in 1..Len(cc) : cc[k].op = "delete"
    /\ Answered(1..Len(cc))
    /\ \A j, k \in 1..Len(cc) : j # k => Concurrent(j, k)
    /\ cc[Len(cc)].status = 204

\* a delete and a complete in flight together, the delete first at the store
DeleteBeatsComplete ==
    \E d \in Found("delete"), c \in Found("complete") :
        /\ OnlyDelete(d) /\ Answered({d, c}) /\ Concurrent(d, c)
        /\ cc[d].exe < cc[c].exe
        /\ cc[c].status = 404

\* the notification spans of the last exchange
NotificationSpans ==
    {i \in 1..Len(last.h.spans) : last.h.spans[i].name = "external.api.notification"}

\* C25: the outbound notification is attempted exactly once for each create
\* request whose insert succeeded, after the insert and carrying the id and
\* title of the inserted task; it is never attempted for a create request
\* that failed validation or whose insert failed, nor for a list, complete
\* or delete request.
C25_NotifiedOncePerInsert ==
    /\ Created
          => /\ last.h.notified \in NotifyOutcomes
             /\ Cardinality(NotificationSpans) = 1
             /\ Len(last.h.notify) <= 1
             /\ last.h.notified # "request_error"
                   => last.h.notify = <<NotifyAttempt(last.h.out, last.h.notified)>>
             /\ last.h.out \in tasks \ last.before
             /\ last.h.out.title = Call.arg
    /\ (Exchanged /\ ~Created)
          => /\ last.h.notified = "none"
             /\ last.h.notify = <<>>
             /\ NotificationSpans = {}

\* a create whose one notification request, answered with a non-2xx status,
\* carries the id and title of the new row
C25_Witness ==
    /\ Created
    /\ last.resp.status = 201
    /\ last.h.notified = "non2xx"
    /\ last.h.notify = <<[id |-> last.h.out.id, title |-> "a", outcome |-> "non2xx"]>>
    /\ last.h.out.id >= 1
    /\ tasks = {last.h.out}

\* a create refused by the store is not notified
RefusedNotNotified ==
    /\ last.h.handler = "CreateTask" /\ Called /\ ~Call.executed
    /\ last.h.notify = <<>>

\* in the steps of CreateTask, the notification starts after the insert
NotificationAfterInsert ==
    (cr.sent > 0 \/ cr.notify # "none" \/ cr.pc = "notify")
        => /\ cr.q.db # <<>>
           /\ cr.q.db[1].executed
           /\ cr.q.out \in tasks
           /\ cr.sent <= 1

====
